---- MODULE Spec2Model ----
(***************************************************************************)
(* Flow orchestration engine of blynx_backend (agent_flow_manager.py).     *)
(*                                                                         *)
(* The program is a single asyncio event loop: code between two awaits     *)
(* runs atomically, and every await of an external call (database write,   *)
(* scrape in the executor, LLM call wrapper) is a point where any other    *)
(* ready coroutine (another flow's background task, an HTTP handler) may   *)
(* run.  Every action below is one such atomic block.  A frame's pc names  *)
(* the await at which the coroutine is suspended.                          *)
(*                                                                         *)
(* Specification Spec: the AgentFlowManager with several users and flows.  *)
(* The four analyzers (and the five evaluators) of one flow are symmetric  *)
(* for the lifecycle, so a fan-out is kept as the number of its tasks that *)
(* have started and that have finished; their log entries carry the tag    *)
(* ANALYZER (EVALUATOR) in place of the individual agent tag.  A log entry *)
(* is <<agent, message>>; timestamps and metadata are left out, and the    *)
(* last entry of an agent ("... completed" or "Error: ...") is kept as     *)
(* "returned".  The database is not part of this specification:            *)
(* persistence writes appear only as suspension points, and consecutive    *)
(* awaits with no in-memory effect between them are one suspension.        *)
(*                                                                         *)
(* Further specifications over the same variables:                         *)
(*   SpecAgents      one flow, every agent call with its own outcome       *)
(*                   (answer, malformed answer, exception);                *)
(*   SpecOneFlow     the manager with one flow of up to ManySources urls;  *)
(*   SpecObservers   the flow with several websocket observers             *)
(*                   (agent_service.py: ConnectionManager, websocket_logs);*)
(*   SpecOneObserver the flow with one observer that may go away, and      *)
(*                   stop requests through AgentService.stop_agent_flow;   *)
(*   SpecCalls       two flows, with the calls that do not await (the LLM  *)
(*                   client, scrape_basic) as states of their own;         *)
(*   SpecDetect      _detect_platform on URLs as character sequences;      *)
(*   SpecWrites      one flow whose database writes may fail;              *)
(*   SpecFallback    one call of scrape_with_fallback (base_agent.py);     *)
(*   SpecStore       one flow and the status column of its database row;   *)
(*   SpecDispatch    the ingestor's choice of scraper for a raw URL;       *)
(*   SpecIngest      one flow whose source URLs share platforms;           *)
(*   SpecJobs        start_scraping_job and the RQ worker                  *)
(*                   (scraping_service.py, queue_manager.py).              *)
(***************************************************************************)
EXTENDS Integers, Sequences, FiniteSets, TLC

\* ---------------------------------------------------------------- bounds
NumUsers == 2
MaxFlows == 2
MaxSources == 1
MaxStops == 1

\* ------------------------------------------------------ program constants
NumAnalyzers == 4
NumEvaluators == 5
NumPhases == 7

PENDING == "pending"
RUNNING == "running"
COMPLETED == "completed"
FAILED == "failed"
STOPPED == "stopped"

FlowStatus == {PENDING, RUNNING, COMPLETED, FAILED, STOPPED}

Users == 1..NumUsers
FlowIds == 1..MaxFlows
None == "None"

\* URLs of a business profile in the order trigger_agent_flow collects them
BusinessUrls ==
  <<"https://acme.com", "https://instagram.com/acme",
    "https://linkedin.com/company/acme", "https://x.com/acme">>

VARIABLES
  active_flows,   \* dict user_id -> flow_id
  flow_logs,      \* dict flow_id -> list of log entries <<agent, message>>
  flow_results,   \* dict flow_id -> final result
  flow_status,    \* dict flow_id -> FlowStatus
  stop_signals,   \* dict flow_id -> bool
  frames,         \* flow_id -> frame of start_agent_flow / _execute_agent_flow
  last_call,      \* the public call made by the last step, None otherwise
  active_connections, \* ConnectionManager: dict flow_id -> websocket
  ws_frames,      \* websocket -> frame of its websocket_logs handler
  stop_frames,    \* flow_id -> frame of AgentService.stop_agent_flow
  sockets,        \* websocket -> the connection as its client sees it
  agent_flows,    \* database table agent_flows: flow_id -> status column
  queue,          \* the RQ queue 'scraping_tasks': the jobs enqueued so far
  scraping_jobs   \* database table scraping_jobs: job_id -> status column

mgr == <<active_flows, flow_logs, flow_results, flow_status, stop_signals>>
\* the service layer (agent_service.py) and the database
\* the scraping service (scraping_service.py, queue_manager.py)
rq == <<queue, scraping_jobs>>
svc == <<active_connections, ws_frames, stop_frames, sockets, agent_flows, rq>>
vars == <<active_flows, flow_logs, flow_results, flow_status, stop_signals,
          frames, last_call, active_connections, ws_frames, stop_frames,
          sockets, agent_flows, queue, scraping_jobs>>

\* ------------------------------------------------------- dict operations
Get(d, k) == IF k \in DOMAIN d THEN d[k] ELSE None
Put(d, k, v) == [x \in (DOMAIN d) \cup {k} |-> IF x = k THEN v ELSE d[x]]
Del(d, k) == [x \in (DOMAIN d) \ {k} |-> d[x]]
EmptyDict == [x \in {} |-> None]

\* uuid.uuid4(): an identifier no earlier flow has
NewFlowId == Cardinality(DOMAIN flow_status) + 1

\* faulty variant: the new entry is put in front of the log
LogAppended_front(logs, f, agent, message) ==
  Put(logs, f, <<<<agent, message>>>> \o (IF f \in DOMAIN logs THEN logs[f] ELSE <<>>))

\* _log_flow_event up to its database await: append to the in-memory log
LogAppended(logs, f, agent, message) ==
  Put(logs, f, (IF f \in DOMAIN logs THEN logs[f] ELSE <<>>) \o <<<<agent, message>>>>)

_detect_platform(url) ==
  CASE url = "https://instagram.com/acme" -> "instagram"
    [] url = "https://x.com/acme" -> "x"
    [] url = "https://linkedin.com/company/acme" -> "linkedin"
    [] OTHER -> "landing_page"

\* no public call was made by the last step
NoCall == [op |-> "none", user_id |-> 0, flow_id |-> 0, ret |-> "none"]

Terminal(s) == s \in {COMPLETED, FAILED, STOPPED}

\* --------------------------------------------------------------- frames
\* Locals of one flow: the arguments of start_agent_flow, then the locals of
\* its background task _execute_agent_flow.
\*   pc: "save"        start_agent_flow suspended in _save_flow_to_db
\*       "spawned"     task created, not yet run
\*       "status_db"   suspended in the RUNNING status write
\*       "boundary"    suspended in the last await before the next stop check
\*       "agent_enter" suspended in the log write of a phase-start entry
\*       "agent_llm"   single-agent phase suspended in the agent's own log write
\*       "loop"        ingestion loop suspended before its next iteration
\*       "scrape"      suspended in the scrape of source i
\*       "scrape_error" suspended in the log write of the ingestor's handler
\*       "gather"      suspended in asyncio.gather
\*       "completed_db" suspended in the result / COMPLETED writes
\*       "failed_db"   suspended in the FAILED status write
\*       "last_log"    suspended in the log write that ends try or except
\*       "stop_return" suspended in the log write of _check_stop_signal
\*       "done"        the task has ended
\*   phase: number of phases begun (1 context, 2 news, 3 ingestion,
\*          4 analysis, 5 evaluation, 6 scoring, 7 feedback)
NewFrame(u, urls) ==
  [pc |-> "save", user_id |-> u, source_urls |-> urls, phase |-> 0,
   i |-> 0, completed_sources |-> 0, failed_sources |-> 0,
   all_scraped_data |-> {}, started |-> 0, finished |-> 0]

Created == DOMAIN frames

SetFrame(f, fr) == frames' = [frames EXCEPT ![f] = fr]
Goto(f, pc) == SetFrame(f, [frames[f] EXCEPT !.pc = pc])

\* entry logged by the orchestrator when phase k begins
PhaseStartEntry(k) ==
  CASE k = 1 -> <<"CONTEXT", "Analyzing business context">>
    [] k = 2 -> <<"NEWS", "Starting news research">>
    [] k = 3 -> <<"INGESTOR", "Starting enhanced multi-source data ingestion">>
    [] k = 4 -> <<"SYSTEM", "Starting enhanced parallel analysis phase">>
    [] k = 5 -> <<"SYSTEM", "Starting enhanced parallel evaluation phase">>
    [] k = 6 -> <<"SCORER", "Computing enhanced Blynx Score">>
    [] OTHER -> <<"FEEDBACK", "Generating comprehensive enhanced feedback">>

\* where the task is suspended right after phase k has begun
PhaseEntryPc(k) ==
  CASE k \in {1, 6, 7} -> "agent_enter"
    [] k = 2 -> "boundary"
    [] k = 3 -> "loop"
    [] OTHER -> "gather"

\* first entry logged by the agent of a single-agent phase
AgentEntry(k) ==
  CASE k = 1 -> <<"CONTEXT", "Analyzing business profile">>
    [] k = 6 -> <<"SCORER", "Computing enhanced Blynx Score">>
    [] OTHER -> <<"FEEDBACK", "Generating comprehensive enhanced feedback">>

AgentTag(k) ==
  CASE k = 1 -> "CONTEXT"
    [] k = 4 -> "ANALYZER"
    [] k = 5 -> "EVALUATOR"
    [] k = 6 -> "SCORER"
    [] OTHER -> "FEEDBACK"

FanOutSize(k) == IF k = 4 THEN NumAnalyzers ELSE NumEvaluators

\* phase an entry belongs to, 0 for the entries of the flow's lifecycle
PhaseOfEntry(e) ==
  CASE e[1] = "CONTEXT" -> 1
    [] e[1] = "NEWS" -> 2
    [] e[1] = "INGESTOR" -> 3
    [] e[1] = "ANALYZER" -> 4
    [] e[1] = "EVALUATOR" -> 5
    [] e[1] = "SCORER" -> 6
    [] e[1] = "FEEDBACK" -> 7
    [] e = PhaseStartEntry(4) -> 4
    [] e = PhaseStartEntry(5) -> 5
    [] OTHER -> 0

StopEntry == <<"SYSTEM", "Flow stopped by user">>
StopCount(f) ==
  IF f \in DOMAIN flow_logs
  THEN Cardinality({n \in 1..Len(flow_logs[f]) : flow_logs[f][n] = StopEntry})
  ELSE 0

\* ------------------------------------------------------ start_agent_flow
\* the check of lines 33-36
StartConflict(u) ==
  /\ u \in DOMAIN active_flows
  /\ Get(flow_status, active_flows[u]) = RUNNING

start_agent_flow_raise(u) ==
  /\ StartConflict(u)
  /\ last_call' = [op |-> "start", user_id |-> u, flow_id |-> 0,
                   ret |-> "ValueError"]
  /\ UNCHANGED <<mgr, frames>>

\* lines 38-46, up to the await of _save_flow_to_db
start_agent_flow_create(u, urls) ==
  /\ ~StartConflict(u)
  /\ NewFlowId <= MaxFlows
  /\ LET f == NewFlowId IN
       /\ active_flows' = Put(active_flows, u, f)
       /\ flow_logs' = Put(flow_logs, f, <<>>)
       /\ flow_status' = Put(flow_status, f, PENDING)
       /\ stop_signals' = Put(stop_signals, f, FALSE)
       /\ frames' = Put(frames, f, NewFrame(u, urls))
       /\ last_call' = [op |-> "start", user_id |-> u, flow_id |-> f,
                        ret |-> "flow_id"]
  /\ UNCHANGED flow_results

\* lines 49-51: asyncio.create_task, return flow_id
start_agent_flow_spawn(f) ==
  /\ f \in Created
  /\ frames[f].pc = "save"
  /\ Goto(f, "spawned")
  /\ last_call' = NoCall
  /\ UNCHANGED mgr

\* ------------------------------------------------------- stop_agent_flow
\* faulty variant: stop_agent_flow without the ownership test of line 55
StopAccepted_anyone(u, f) == f \in DOMAIN stop_signals

\* the value stop_agent_flow(u, f) returns (lines 55-64)
StopAccepted(u, f) ==
  /\ u \in DOMAIN active_flows
  /\ active_flows[u] = f
  /\ f \in DOMAIN stop_signals

\* The writes after the in-memory updates (lines 61-62) go to the database
\* only, so the call is one block for the state of this specification.
stop_agent_flow(u, f) ==
  /\ last_call' = [op |-> "stop", user_id |-> u, flow_id |-> f,
                   ret |-> IF StopAccepted(u, f) THEN "True" ELSE "False"]
  /\ IF StopAccepted(u, f)
     THEN /\ StopCount(f) < MaxStops
          /\ stop_signals' = Put(stop_signals, f, TRUE)
          /\ flow_status' = Put(flow_status, f, STOPPED)
          /\ flow_logs' = LogAppended(flow_logs, f, StopEntry[1], StopEntry[2])
          /\ UNCHANGED <<active_flows, flow_results, frames>>
     ELSE UNCHANGED <<mgr, frames>>

\* --------------------------------------------------- _execute_agent_flow
\* faulty variant: a stop check that never sees the flag
_check_stop_signal_blind(f) == FALSE

\* _check_stop_signal: the flag it reads (line 169)
_check_stop_signal(f) == f \in DOMAIN stop_signals /\ stop_signals[f]

\* the finally clause (lines 361-364)
\* faulty variant: the finally clause without the test of line 362
Released_any(af, u, f) ==
  IF u \in DOMAIN af THEN Del(af, u) ELSE af

Released(af, u, f) ==
  IF u \in DOMAIN af /\ af[u] = f THEN Del(af, u) ELSE af

\* line 177, then suspended in the status write of line 178
ExecBegin(f) ==
  /\ f \in Created
  /\ frames[f].pc = "spawned"
  /\ flow_status' = Put(flow_status, f, RUNNING)
  /\ Goto(f, "status_db")
  /\ last_call' = NoCall
  /\ UNCHANGED <<active_flows, flow_logs, flow_results, stop_signals>>

\* line 179
ExecLogStart(f) ==
  /\ f \in Created
  /\ frames[f].pc = "status_db"
  /\ flow_logs' = LogAppended(flow_logs, f, "SYSTEM", "Starting enhanced agent flow")
  /\ Goto(f, "boundary")
  /\ last_call' = NoCall
  /\ UNCHANGED <<active_flows, flow_results, flow_status, stop_signals>>

\* faulty variant: the next phase may begin while tasks of the gather still run
AtBoundary_early(f) ==
  /\ f \in Created
  /\ frames[f].phase < NumPhases
  /\ frames[f].pc \in {"boundary", "gather"}

\* the task is about to run the stop check that precedes phase frames[f].phase + 1
AtBoundary(f) ==
  /\ f \in Created
  /\ frames[f].phase < NumPhases
  /\ \/ frames[f].pc = "boundary"
     \/ /\ frames[f].pc = "gather"
        /\ frames[f].finished = FanOutSize(frames[f].phase)

\* a stop check that finds the flag set: log and return (lines 182-183 and alike)
StopCheckReturn(f) ==
  /\ AtBoundary(f)
  /\ _check_stop_signal(f)
  /\ flow_logs' = LogAppended(flow_logs, f, "SYSTEM", "Flow stop signal received")
  /\ Goto(f, "stop_return")
  /\ last_call' = NoCall
  /\ UNCHANGED <<active_flows, flow_results, flow_status, stop_signals>>

\* a stop check that passes: the next phase begins with its first log entry
PhaseBegin(f) ==
  /\ AtBoundary(f)
  /\ ~_check_stop_signal(f)
  /\ LET k == frames[f].phase + 1 IN
       /\ flow_logs' = LogAppended(flow_logs, f, PhaseStartEntry(k)[1], PhaseStartEntry(k)[2])
       /\ SetFrame(f, [frames[f] EXCEPT !.phase = k, !.pc = PhaseEntryPc(k),
                                        !.started = 0, !.finished = 0])
  /\ last_call' = NoCall
  /\ UNCHANGED <<active_flows, flow_results, flow_status, stop_signals>>

\* _analyze_business_context, _run_enhanced_scorer_agent,
\* _run_enhanced_feedback_generator: the agent's first log entry
AgentEnter(f) ==
  /\ f \in Created
  /\ frames[f].pc = "agent_enter"
  /\ LET e == AgentEntry(frames[f].phase) IN
       flow_logs' = LogAppended(flow_logs, f, e[1], e[2])
  /\ Goto(f, "agent_llm")
  /\ last_call' = NoCall
  /\ UNCHANGED <<active_flows, flow_results, flow_status, stop_signals>>

\* the LLM call returns or raises: the agent logs "... completed" or "Error: ..."
\* (one entry either way, kept as "returned") and returns a payload or an
\* {error} value; nothing leaves the agent as an exception
AgentReturn(f) ==
  /\ f \in Created
  /\ frames[f].pc = "agent_llm"
  /\ flow_logs' = LogAppended(flow_logs, f, AgentTag(frames[f].phase), "returned")
  /\ Goto(f, "boundary")
  /\ last_call' = NoCall
  /\ UNCHANGED <<active_flows, flow_results, flow_status, stop_signals>>

Init ==
  /\ active_flows = EmptyDict
  /\ flow_logs = EmptyDict
  /\ flow_results = EmptyDict
  /\ flow_status = EmptyDict
  /\ stop_signals = EmptyDict
  /\ frames = EmptyDict
  /\ last_call = NoCall
  /\ active_connections = EmptyDict
  /\ ws_frames = EmptyDict
  /\ stop_frames = EmptyDict
  /\ sockets = EmptyDict
  /\ agent_flows = EmptyDict
  /\ queue = <<>>
  /\ scraping_jobs = EmptyDict

\* head of the ingestion loop (lines 206-228): stop check and next scrape, or
\* the end of the loop
LoopStopReturn(f) ==
  /\ f \in Created
  /\ frames[f].pc = "loop"
  /\ frames[f].i < Len(frames[f].source_urls)
  /\ _check_stop_signal(f)
  /\ flow_logs' = LogAppended(flow_logs, f, "SYSTEM", "Flow stop signal received")
  /\ Goto(f, "stop_return")
  /\ last_call' = NoCall
  /\ UNCHANGED <<active_flows, flow_results, flow_status, stop_signals>>

\* faulty variant: the next scrape is started while one is still running
LoopScrape_eager(f) ==
  /\ f \in Created
  /\ frames[f].pc \in {"loop", "scrape"}
  /\ frames[f].i < Len(frames[f].source_urls)
  /\ ~_check_stop_signal(f)
  /\ flow_logs' = LogAppended(flow_logs, f, "INGESTOR", "Scraping source")
  /\ Goto(f, "scrape")
  /\ last_call' = NoCall
  /\ UNCHANGED <<active_flows, flow_results, flow_status, stop_signals>>

LoopScrape(f) ==
  /\ f \in Created
  /\ frames[f].pc = "loop"
  /\ frames[f].i < Len(frames[f].source_urls)
  /\ ~_check_stop_signal(f)
  /\ flow_logs' = LogAppended(flow_logs, f, "INGESTOR", "Scraping source")
  /\ Goto(f, "scrape")
  /\ last_call' = NoCall
  /\ UNCHANGED <<active_flows, flow_results, flow_status, stop_signals>>

\* _run_enhanced_ingestor_agent raises inside its try: its handler logs
ScrapeRaise(f) ==
  /\ f \in Created
  /\ frames[f].pc = "scrape"
  /\ flow_logs' = LogAppended(flow_logs, f, "INGESTOR", "Error")
  /\ Goto(f, "scrape_error")
  /\ last_call' = NoCall
  /\ UNCHANGED <<active_flows, flow_results, flow_status, stop_signals>>

\* faulty variant: a failed scrape is logged but not counted
ScrapeReturn_uncounted(f, success) ==
  /\ f \in Created
  /\ \/ frames[f].pc = "scrape"
     \/ frames[f].pc = "scrape_error" /\ ~success
  /\ LET fr == frames[f]
         url == fr.source_urls[fr.i + 1]
     IN IF success
        THEN /\ flow_logs' = LogAppended(flow_logs, f, "INGESTOR", "Successfully scraped")
             /\ SetFrame(f, [fr EXCEPT !.pc = "loop", !.i = fr.i + 1,
                    !.all_scraped_data = fr.all_scraped_data \cup {_detect_platform(url)},
                    !.completed_sources = fr.completed_sources + 1])
        ELSE /\ flow_logs' = LogAppended(flow_logs, f, "INGESTOR", "Failed to scrape")
             /\ SetFrame(f, [fr EXCEPT !.pc = "loop", !.i = fr.i + 1])
  /\ last_call' = NoCall
  /\ UNCHANGED <<active_flows, flow_results, flow_status, stop_signals>>

\* faulty variant: a source whose scrape failed is scraped again
ScrapeReturn_retry(f, success) ==
  /\ f \in Created
  /\ \/ frames[f].pc = "scrape"
     \/ frames[f].pc = "scrape_error" /\ ~success
  /\ LET fr == frames[f]
         url == fr.source_urls[fr.i + 1]
     IN IF success
        THEN /\ flow_logs' = LogAppended(flow_logs, f, "INGESTOR", "Successfully scraped")
             /\ SetFrame(f, [fr EXCEPT !.pc = "loop", !.i = fr.i + 1,
                    !.all_scraped_data = fr.all_scraped_data \cup {_detect_platform(url)},
                    !.completed_sources = fr.completed_sources + 1])
        ELSE /\ flow_logs' = LogAppended(flow_logs, f, "INGESTOR", "Failed to scrape")
             /\ SetFrame(f, [fr EXCEPT !.pc = "loop"])
  /\ last_call' = NoCall
  /\ UNCHANGED <<active_flows, flow_results, flow_status, stop_signals>>

\* faulty variant: a success for a platform the map already holds is not
\* counted
ScrapeReturn_distinct(f, success) ==
  /\ f \in Created
  /\ \/ frames[f].pc = "scrape"
     \/ frames[f].pc = "scrape_error" /\ ~success
  /\ LET fr == frames[f]
         url == fr.source_urls[fr.i + 1]
     IN IF success
        THEN /\ flow_logs' = LogAppended(flow_logs, f, "INGESTOR", "Successfully scraped")
             /\ SetFrame(f, [fr EXCEPT !.pc = "loop", !.i = fr.i + 1,
                    !.all_scraped_data = fr.all_scraped_data \cup {_detect_platform(url)},
                    !.completed_sources =
                       IF _detect_platform(url) \in fr.all_scraped_data
                       THEN fr.completed_sources ELSE fr.completed_sources + 1])
        ELSE /\ flow_logs' = LogAppended(flow_logs, f, "INGESTOR", "Failed to scrape")
             /\ SetFrame(f, [fr EXCEPT !.pc = "loop", !.i = fr.i + 1,
                    !.failed_sources = fr.failed_sources + 1])
  /\ last_call' = NoCall
  /\ UNCHANGED <<active_flows, flow_results, flow_status, stop_signals>>

\* lines 213-223: the outcome of source i is recorded
ScrapeReturn(f, success) ==
  /\ f \in Created
  /\ \/ frames[f].pc = "scrape"
     \/ frames[f].pc = "scrape_error" /\ ~success
  /\ LET fr == frames[f]
         url == fr.source_urls[fr.i + 1]
     IN IF success
        THEN /\ flow_logs' = LogAppended(flow_logs, f, "INGESTOR", "Successfully scraped")
             /\ SetFrame(f, [fr EXCEPT !.pc = "loop", !.i = fr.i + 1,
                    !.all_scraped_data = fr.all_scraped_data \cup {_detect_platform(url)},
                    !.completed_sources = fr.completed_sources + 1])
        ELSE /\ flow_logs' = LogAppended(flow_logs, f, "INGESTOR", "Failed to scrape")
             /\ SetFrame(f, [fr EXCEPT !.pc = "loop", !.i = fr.i + 1,
                    !.failed_sources = fr.failed_sources + 1])
  /\ last_call' = NoCall
  /\ UNCHANGED <<active_flows, flow_results, flow_status, stop_signals>>

\* lines 225-226 and 356-359: nothing scraped, the exception reaches the handler
LoopEndRaise(f) ==
  /\ f \in Created
  /\ frames[f].pc = "loop"
  /\ frames[f].i = Len(frames[f].source_urls)
  /\ frames[f].all_scraped_data = {}
  /\ flow_status' = Put(flow_status, f, FAILED)
  /\ Goto(f, "failed_db")
  /\ last_call' = NoCall
  /\ UNCHANGED <<active_flows, flow_logs, flow_results, stop_signals>>

\* line 228
LoopEnd(f) ==
  /\ f \in Created
  /\ frames[f].pc = "loop"
  /\ frames[f].i = Len(frames[f].source_urls)
  /\ frames[f].all_scraped_data # {}
  /\ flow_logs' = LogAppended(flow_logs, f, "INGESTOR", "Data ingestion completed")
  /\ Goto(f, "boundary")
  /\ last_call' = NoCall
  /\ UNCHANGED <<active_flows, flow_results, flow_status, stop_signals>>

\* The gather's tasks are created together and queued one after the other, so
\* the event loop runs the first block of each, up to its first await, back to
\* back: their first log entries are appended with nothing in between.
RECURSIVE Repeat(_, _)
Repeat(e, n) == IF n = 0 THEN <<>> ELSE <<e>> \o Repeat(e, n - 1)

GatherStart(f) ==
  /\ f \in Created
  /\ frames[f].pc = "gather"
  /\ frames[f].started = 0
  /\ LET n == FanOutSize(frames[f].phase) IN
       /\ flow_logs' = Put(flow_logs, f,
              flow_logs[f] \o Repeat(<<AgentTag(frames[f].phase), "started">>, n))
       /\ SetFrame(f, [frames[f] EXCEPT !.started = n])
  /\ last_call' = NoCall
  /\ UNCHANGED <<active_flows, flow_results, flow_status, stop_signals>>

\* one started analyzer or evaluator logs its last entry and ends, with a
\* payload or an {error} value
TaskFinish(f) ==
  /\ f \in Created
  /\ frames[f].pc = "gather"
  /\ frames[f].finished < frames[f].started
  /\ flow_logs' = LogAppended(flow_logs, f, AgentTag(frames[f].phase), "returned")
  /\ SetFrame(f, [frames[f] EXCEPT !.finished = frames[f].finished + 1])
  /\ last_call' = NoCall
  /\ UNCHANGED <<active_flows, flow_results, flow_status, stop_signals>>

\* the result compiled at lines 322-347, as far as the counters go
FinalResult(fr) ==
  [total_sources |-> Len(fr.source_urls),
   completed_sources |-> fr.completed_sources,
   failed_sources |-> fr.failed_sources]

\* lines 349-350, then suspended in the writes of lines 352-353
Complete(f) ==
  /\ f \in Created
  /\ frames[f].pc = "boundary"
  /\ frames[f].phase = NumPhases
  /\ flow_results' = Put(flow_results, f, FinalResult(frames[f]))
  /\ flow_status' = Put(flow_status, f, COMPLETED)
  /\ Goto(f, "completed_db")
  /\ last_call' = NoCall
  /\ UNCHANGED <<active_flows, flow_logs, stop_signals>>

\* line 354
ExecLogCompleted(f) ==
  /\ f \in Created
  /\ frames[f].pc = "completed_db"
  /\ flow_logs' = LogAppended(flow_logs, f, "SYSTEM", "Enhanced agent flow completed successfully")
  /\ Goto(f, "last_log")
  /\ last_call' = NoCall
  /\ UNCHANGED <<active_flows, flow_results, flow_status, stop_signals>>

\* line 360
ExecLogFailed(f) ==
  /\ f \in Created
  /\ frames[f].pc = "failed_db"
  /\ flow_logs' = LogAppended(flow_logs, f, "SYSTEM", "Agent flow failed")
  /\ Goto(f, "last_log")
  /\ last_call' = NoCall
  /\ UNCHANGED <<active_flows, flow_results, flow_status, stop_signals>>

\* the task leaves try/except or returns from a stop check: finally
Finally(f) ==
  /\ f \in Created
  /\ frames[f].pc \in {"last_log", "stop_return"}
  /\ active_flows' = Released(active_flows, frames[f].user_id, f)
  /\ Goto(f, "done")
  /\ last_call' = NoCall
  /\ UNCHANGED <<flow_logs, flow_results, flow_status, stop_signals>>

\* ------------------------------------------------------- specification
\* source_urls of a call: the first n URLs of the business profile
SourceUrls == {SubSeq(BusinessUrls, 1, n) : n \in 1..MaxSources}

Next ==
  \/ \E u \in Users : start_agent_flow_raise(u) /\ UNCHANGED svc
  \/ \E u \in Users, urls \in SourceUrls : start_agent_flow_create(u, urls) /\ UNCHANGED svc
  \/ \E f \in FlowIds : start_agent_flow_spawn(f) /\ UNCHANGED svc
  \/ \E u \in Users, f \in FlowIds : stop_agent_flow(u, f) /\ UNCHANGED svc
  \/ \E f \in FlowIds : ExecBegin(f) /\ UNCHANGED svc
  \/ \E f \in FlowIds : ExecLogStart(f) /\ UNCHANGED svc
  \/ \E f \in FlowIds : StopCheckReturn(f) /\ UNCHANGED svc
  \/ \E f \in FlowIds : PhaseBegin(f) /\ UNCHANGED svc
  \/ \E f \in FlowIds : AgentEnter(f) /\ UNCHANGED svc
  \/ \E f \in FlowIds : AgentReturn(f) /\ UNCHANGED svc
  \/ \E f \in FlowIds : LoopStopReturn(f) /\ UNCHANGED svc
  \/ \E f \in FlowIds : LoopScrape(f) /\ UNCHANGED svc
  \/ \E f \in FlowIds : ScrapeRaise(f) /\ UNCHANGED svc
  \/ \E f \in FlowIds, success \in BOOLEAN : ScrapeReturn(f, success) /\ UNCHANGED svc
  \/ \E f \in FlowIds : LoopEndRaise(f) /\ UNCHANGED svc
  \/ \E f \in FlowIds : LoopEnd(f) /\ UNCHANGED svc
  \/ \E f \in FlowIds : GatherStart(f) /\ UNCHANGED svc
  \/ \E f \in FlowIds : TaskFinish(f) /\ UNCHANGED svc
  \/ \E f \in FlowIds : Complete(f) /\ UNCHANGED svc
  \/ \E f \in FlowIds : ExecLogCompleted(f) /\ UNCHANGED svc
  \/ \E f \in FlowIds : ExecLogFailed(f) /\ UNCHANGED svc
  \/ \E f \in FlowIds : Finally(f) /\ UNCHANGED svc

Spec == Init /\ [][Next]_vars

\* ======================================================= claims C1 - C10
Owner(f) == frames[f].user_id
Ended(f) == f \in Created /\ frames[f].pc = "done"
\* phases of which the log of f holds an entry
LoggedPhases(f) ==
  {PhaseOfEntry(flow_logs[f][n]) : n \in 1..Len(flow_logs[f])} \ {0}
\* the six phases of the documented pipeline, as numbered above
SixPhases == <<1, 3, 4, 5, 6, 7>>
\* number of entries e in the log of f
CountEntries(f, e) ==
  Cardinality({n \in 1..Len(flow_logs[f]) : flow_logs[f][n] = e})
\* the log of f shows that phase j has run to its end
PhaseReturned(f, j) ==
  CASE j \in {1, 6, 7} -> CountEntries(f, <<AgentTag(j), "returned">>) = 1
    [] j = 2 -> TRUE
    [] j = 3 -> CountEntries(f, <<"INGESTOR", "Data ingestion completed">>) = 1
    [] OTHER -> CountEntries(f, <<AgentTag(j), "returned">>) = FanOutSize(j)

\* C1: in every reachable state each user owns at most one flow whose status
\* is PENDING or RUNNING, also when a second start_agent_flow call of the user
\* arrives while the first is suspended in its initial persistence write.
C1_OneActiveFlowPerUser ==
  \A f \in Created, g \in Created :
    (/\ f # g
     /\ Owner(f) = Owner(g)
     /\ flow_status[f] \in {PENDING, RUNNING})
    => flow_status[g] \notin {PENDING, RUNNING}

\* C2: a status that is COMPLETED, FAILED or STOPPED never changes again, and
\* a status only moves forward along PENDING -> RUNNING -> terminal, under
\* every interleaving of stop_agent_flow with the background execution.
C2_StatusMovesForward ==
  [][\A f \in DOMAIN flow_status :
       flow_status'[f] # flow_status[f]
       => \/ flow_status[f] = PENDING /\ flow_status'[f] # PENDING
          \/ flow_status[f] = RUNNING /\ Terminal(flow_status'[f])]_vars

\* C3: when the background execution of a flow ends, by any path,
\* active_flows no longer maps the owner to that flow and a start_agent_flow
\* call of the owner made immediately afterwards succeeds.
C3_StartSucceedsAfterExit ==
  [][\A f \in Created :
       (frames[f].pc # "done" /\ frames'[f].pc = "done")
       => /\ ~(Owner(f) \in DOMAIN active_flows' /\ active_flows'[Owner(f)] = f)
          /\ ~(StartConflict(Owner(f)))']_vars

\* C4: a start_agent_flow call of a user who has a PENDING or RUNNING flow
\* fails with the conflict error, spawns nothing and leaves active_flows,
\* flow_status, flow_logs, stop_signals and flow_results unchanged.
C4_StartWhileActiveRejected ==
  [][\A u \in Users :
       (/\ \E g \in Created : Owner(g) = u /\ flow_status[g] \in {PENDING, RUNNING}
        /\ last_call'.op = "start"
        /\ last_call'.user_id = u)
       => /\ last_call'.ret = "ValueError"
          /\ UNCHANGED <<mgr, frames>>]_vars

\* C5: if a stop_agent_flow call of the owner took effect for a flow, the
\* status of the flow once its background execution has ended is STOPPED.
C5_StoppedFlowEndsStopped ==
  \A f \in Created :
    (Ended(f) /\ stop_signals[f]) => flow_status[f] = STOPPED

\* C6: after stop_agent_flow took effect for a flow while phase k is in
\* flight, the step that stops leaves the task where it is, the tasks of
\* phase k run to completion before the task returns, no later phase begins
\* and no log entry of a later phase is appended.
C6_NoPhaseAfterStop ==
  /\ [][\A f \in Created :
          /\ (stop_signals'[f] /\ ~stop_signals[f]) => frames'[f] = frames[f]
          /\ stop_signals[f]
             => /\ frames'[f].phase = frames[f].phase
                /\ \A n \in (Len(flow_logs[f]) + 1)..Len(flow_logs'[f]) :
                     PhaseOfEntry(flow_logs'[f][n]) <= frames[f].phase]_vars
  /\ [](\A f \in Created :
          (frames[f].pc \in {"stop_return", "done"} /\ frames[f].phase \in {4, 5})
          => frames[f].finished = FanOutSize(frames[f].phase))

C6_Witness ==
  \E f \in Created :
    /\ stop_signals[f]
    /\ Ended(f)
    /\ frames[f].phase = 4
    /\ frames[f].finished = NumAnalyzers

\* C7: stop_agent_flow(user, flow) sets the stop flag and returns true if and
\* only if the user owns the flow and its status is not terminal; in every
\* other case it returns false and changes no state.
C7_StopIffOwnedAndNotTerminal ==
  [][last_call'.op = "stop"
     => LET u == last_call'.user_id
            f == last_call'.flow_id
            owned == f \in Created /\ Owner(f) = u
        IN /\ (last_call'.ret = "True")
              <=> (owned /\ ~Terminal(flow_status[f]))
           /\ last_call'.ret = "True" => stop_signals'[f]
           /\ last_call'.ret = "False" => UNCHANGED <<mgr, frames>>]_vars

\* C8: a stop_agent_flow call by a user who does not own the flow returns
\* false and leaves the stop flag, status, log and result of the flow (and
\* its task) as they were, so the flow proceeds as without the call.
C8_ForeignStopRejected ==
  [][\A f \in Created :
       (/\ last_call'.op = "stop"
        /\ last_call'.flow_id = f
        /\ last_call'.user_id # Owner(f))
       => /\ last_call'.ret = "False"
          /\ UNCHANGED <<mgr, frames>>]_vars

C8_Witness ==
  \E f \in Created :
    /\ last_call.op = "stop"
    /\ last_call.flow_id = f
    /\ last_call.user_id # Owner(f)
    /\ last_call.ret = "False"
    /\ flow_status[f] = RUNNING
    /\ frames[f].phase = 3

C10_ResultIffCompleted ==
  \A f \in Created :
    (f \in DOMAIN flow_results) <=> (flow_status[f] = COMPLETED)

\* ================================================ specification SpecAgents
\* One flow of _execute_agent_flow at the granularity of what its agents
\* return: every LLM call ends "ok" (well-formed JSON), "malformed" (text
\* that json.loads rejects) or "raise" (the client call raises).  No stop
\* request and no second flow occur here; both are the subject of Spec.  The
\* tasks of a gather end in any order; their log entries carry the tags of
\* Spec.
MaxFaults == 2

AnalyzerTasks == <<"classifier", "extractor", "red_flags", "news_analyzer">>
EvaluatorTasks ==
  <<"accuracy", "impact", "language_clarity", "brand_consistency", "reputation">>
Outcomes == {"ok", "malformed", "raise"}

Unset == <<"unset", "unset">>
Payload(agent) == <<"payload", agent>>
ErrorValue(message) == <<"error", message>>
IsError(v) == v[1] = "error"

\* gemini_client.generate_json_content: the parsed object, the fallback
\* structure of the JSONDecodeError handler, or the exception re-raised
generate_json_content(agent, outcome) ==
  CASE outcome = "ok" -> [raised |-> FALSE, value |-> Payload(agent)]
    [] outcome = "malformed" ->
         [raised |-> FALSE, value |-> ErrorValue("Failed to parse JSON response")]
    [] OTHER -> [raised |-> TRUE, value |-> <<"exception", agent>>]

\* faulty variant: an agent without its try/except
_run_agent_uncaught(agent, outcome) == generate_json_content(agent, outcome)

\* _analyze_business_context and every _run_* agent: try, return result;
\* except Exception, return {"error": str(e)}
_run_agent(agent, outcome) ==
  LET r == generate_json_content(agent, outcome)
  IN IF r.raised
     THEN [raised |-> FALSE, value |-> ErrorValue("exception")]
     ELSE r

\* asyncio.gather(*tasks, return_exceptions=True): one entry per task, in the
\* order of the tasks, an exception object where the task raised
gather(children) ==
  [i \in DOMAIN children |->
     IF children[i].raised THEN <<"exception", "raised">> ELSE children[i].value]

\* faulty variant: failed entries are filtered out of the list
Normalized_dropping(results) ==
  SelectSeq(results, LAMBDA v : v[1] \notin {"exception", "error"})

\* lines 252-255 and 284-287: exceptions become {"error": str(result)} in place
Normalized(results) ==
  [i \in 1..Len(results) |->
     IF results[i][1] = "exception" THEN ErrorValue("exception") ELSE results[i]]

AgentsFrame(u, urls) ==
  [pc |-> "context", user_id |-> u, source_urls |-> urls, faults |-> 0,
   outcomes |-> EmptyDict, business_context |-> Unset, news_success |-> FALSE,
   completed_sources |-> 0, failed_sources |-> 0, children |-> <<>>,
   analyzer_results |-> <<>>, evaluator_results |-> <<>>,
   blynx_score |-> Unset, feedback |-> Unset]

\* the state after start_agent_flow returned and the task ran lines 177-179
InitAgents ==
  /\ active_flows = [u \in {1} |-> 1]
  /\ flow_logs = [f \in {1} |-> <<<<"SYSTEM", "Starting enhanced agent flow">>>>]
  /\ flow_results = EmptyDict
  /\ flow_status = [f \in {1} |-> RUNNING]
  /\ stop_signals = [f \in {1} |-> FALSE]
  /\ frames \in {[f \in {1} |-> AgentsFrame(1, urls)] : urls \in SourceUrls}
  /\ last_call = NoCall
  /\ active_connections = EmptyDict
  /\ ws_frames = EmptyDict
  /\ stop_frames = EmptyDict
  /\ sockets = EmptyDict
  /\ agent_flows = EmptyDict
  /\ queue = <<>>
  /\ scraping_jobs = EmptyDict

Logged(f, entries) == flow_logs' = Put(flow_logs, f, flow_logs[f] \o entries)
MayEnd(f, outcome) == outcome = "ok" \/ frames[f].faults < MaxFaults
Faults(f, outcome) == frames[f].faults + (IF outcome = "ok" THEN 0 ELSE 1)

FanOutTasks(k) == IF k = 4 THEN AnalyzerTasks ELSE EvaluatorTasks

\* an exception reaches the handler of _execute_agent_flow (lines 356-360);
\* entries: what the block logged before it raised
ToExcept(f, fr, entries) ==
  /\ flow_status' = Put(flow_status, f, FAILED)
  /\ Logged(f, entries \o <<<<"SYSTEM", "Agent flow failed">>>>)
  /\ SetFrame(f, [fr EXCEPT !.pc = "finally"])
  /\ UNCHANGED flow_results

\* the block goes on: log and new frame
GoOn(f, fr, entries) ==
  /\ Logged(f, entries)
  /\ SetFrame(f, fr)
  /\ UNCHANGED <<flow_results, flow_status>>

\* the frame after the call of an agent with this outcome
Called(f, agent, outcome) ==
  [frames[f] EXCEPT !.faults = Faults(f, outcome),
                    !.outcomes = Put(@, agent, outcome)]

\* lines 185-186
_analyze_business_context(f, outcome) ==
  /\ frames[f].pc = "context"
  /\ MayEnd(f, outcome)
  /\ LET r == _run_agent("context", outcome)
         fr == Called(f, "context", outcome)
     IN IF r.raised
        THEN ToExcept(f, fr, <<PhaseStartEntry(1), AgentEntry(1)>>)
        ELSE GoOn(f, [fr EXCEPT !.business_context = r.value, !.pc = "news"],
                  <<PhaseStartEntry(1), AgentEntry(1), <<AgentTag(1), "returned">>>>)
  /\ UNCHANGED <<active_flows, stop_signals, last_call>>

\* lines 192-195: the news agent returns a dict with its own success flag and
\* logs to the database only
research_company_news(f, success) ==
  /\ frames[f].pc = "news"
  /\ GoOn(f, [frames[f] EXCEPT !.news_success = success, !.pc = "ingestion"],
          <<PhaseStartEntry(2)>>)
  /\ UNCHANGED <<active_flows, stop_signals, last_call>>

\* lines 201-228 without a stop request: scraped is the set of sources whose
\* scrape reported success
IngestSources(f, scraped) ==
  /\ frames[f].pc = "ingestion"
  /\ LET n == Len(frames[f].source_urls)
         fr == [frames[f] EXCEPT !.completed_sources = Cardinality(scraped),
                                 !.failed_sources = n - Cardinality(scraped)]
         entries == <<PhaseStartEntry(3)>> \o
                    [i \in 1..(2 * n) |->
                       IF i % 2 = 1 THEN <<"INGESTOR", "Scraping source">>
                       ELSE IF (i \div 2) \in scraped
                            THEN <<"INGESTOR", "Successfully scraped">>
                            ELSE <<"INGESTOR", "Failed to scrape">>]
     IN IF scraped = {}
        THEN ToExcept(f, fr, entries)
        ELSE GoOn(f, [fr EXCEPT !.pc = "analysis"],
                  entries \o <<<<"INGESTOR", "Data ingestion completed">>>>)
  /\ UNCHANGED <<active_flows, stop_signals, last_call>>

\* lines 234-249 and 263-281: the tasks are created and each runs to its LLM call
FanOutBegin(f) ==
  /\ frames[f].pc \in {"analysis", "evaluation"}
  /\ LET k == IF frames[f].pc = "analysis" THEN 4 ELSE 5
     IN GoOn(f, [frames[f] EXCEPT !.pc = "gather", !.children = EmptyDict],
             <<PhaseStartEntry(k)>> \o Repeat(<<AgentTag(k), "started">>, FanOutSize(k)))
  /\ UNCHANGED <<active_flows, stop_signals, last_call>>

\* the LLM call of task i ends and the task returns
FanOutTaskReturn(f, i, outcome) ==
  /\ frames[f].pc = "gather"
  /\ LET k == IF frames[f].analyzer_results = <<>> THEN 4 ELSE 5
         agent == FanOutTasks(k)[i]
     IN /\ i \in 1..FanOutSize(k)
        /\ i \notin DOMAIN frames[f].children
        /\ MayEnd(f, outcome)
        /\ GoOn(f, [Called(f, agent, outcome) EXCEPT
                       !.children = Put(@, i, _run_agent(agent, outcome))],
                <<<<AgentTag(k), "returned">>>>)
  /\ UNCHANGED <<active_flows, stop_signals, last_call>>

\* gather returns; lines 251-257 and 283-289: normalise and unpack.  Unpacking
\* a list of another length raises ValueError.
FanOutEnd(f) ==
  /\ frames[f].pc = "gather"
  /\ LET k == IF frames[f].analyzer_results = <<>> THEN 4 ELSE 5
         results == Normalized(gather(frames[f].children))
     IN /\ DOMAIN frames[f].children = 1..FanOutSize(k)
        /\ IF Len(results) # FanOutSize(k)
           THEN ToExcept(f, frames[f], <<>>)
           ELSE IF k = 4
                THEN GoOn(f, [frames[f] EXCEPT !.analyzer_results = results,
                                              !.pc = "evaluation"], <<>>)
                ELSE GoOn(f, [frames[f] EXCEPT !.evaluator_results = results,
                                              !.pc = "scoring"], <<>>)
  /\ UNCHANGED <<active_flows, stop_signals, last_call>>

\* lines 295-307
_run_enhanced_scorer_agent(f, outcome) ==
  /\ frames[f].pc = "scoring"
  /\ MayEnd(f, outcome)
  /\ LET r == _run_agent("scorer", outcome)
         fr == Called(f, "scorer", outcome)
     IN IF r.raised
        THEN ToExcept(f, fr, <<PhaseStartEntry(6), AgentEntry(6)>>)
        ELSE GoOn(f, [fr EXCEPT !.blynx_score = r.value, !.pc = "feedback"],
                  <<PhaseStartEntry(6), AgentEntry(6), <<AgentTag(6), "returned">>>>)
  /\ UNCHANGED <<active_flows, stop_signals, last_call>>

\* lines 312-319
_run_enhanced_feedback_generator(f, outcome) ==
  /\ frames[f].pc = "feedback"
  /\ MayEnd(f, outcome)
  /\ LET r == _run_agent("feedback", outcome)
         fr == Called(f, "feedback", outcome)
     IN IF r.raised
        THEN ToExcept(f, fr, <<PhaseStartEntry(7), AgentEntry(7)>>)
        ELSE GoOn(f, [fr EXCEPT !.feedback = r.value, !.pc = "compile"],
                  <<PhaseStartEntry(7), AgentEntry(7), <<AgentTag(7), "returned">>>>)
  /\ UNCHANGED <<active_flows, stop_signals, last_call>>

\* the result compiled at lines 322-347
AgentsResult(fr) ==
  [business_context |-> fr.business_context,
   blynx_score |-> fr.blynx_score,
   feedback |-> fr.feedback,
   analysis_details |->
     [content_classification |-> fr.analyzer_results[1],
      data_extraction |-> fr.analyzer_results[2],
      red_flags |-> fr.analyzer_results[3],
      news_analysis |-> fr.analyzer_results[4],
      accuracy_evaluation |-> fr.evaluator_results[1],
      impact_evaluation |-> fr.evaluator_results[2],
      language_evaluation |-> fr.evaluator_results[3],
      brand_evaluation |-> fr.evaluator_results[4],
      reputation_evaluation |-> fr.evaluator_results[5]],
   statistics |-> FinalResult(fr)]

\* lines 322-354
CompileResult(f) ==
  /\ frames[f].pc = "compile"
  /\ flow_results' = Put(flow_results, f, AgentsResult(frames[f]))
  /\ flow_status' = Put(flow_status, f, COMPLETED)
  /\ Logged(f, <<<<"SYSTEM", "Enhanced agent flow completed successfully">>>>)
  /\ Goto(f, "finally")
  /\ UNCHANGED <<active_flows, stop_signals, last_call>>

\* lines 361-364
AgentsFinally(f) ==
  /\ frames[f].pc = "finally"
  /\ active_flows' = Released(active_flows, frames[f].user_id, f)
  /\ Goto(f, "done")
  /\ UNCHANGED <<flow_logs, flow_results, flow_status, stop_signals, last_call>>

NextAgents ==
  \/ \E f \in {1}, outcome \in Outcomes : _analyze_business_context(f, outcome) /\ UNCHANGED svc
  \/ \E f \in {1}, success \in BOOLEAN : research_company_news(f, success) /\ UNCHANGED svc
  \/ \E f \in {1} : \E scraped \in SUBSET (1..Len(frames[f].source_urls)) :
       IngestSources(f, scraped) /\ UNCHANGED svc
  \/ \E f \in {1} : FanOutBegin(f) /\ UNCHANGED svc
  \/ \E f \in {1}, i \in 1..NumEvaluators, outcome \in Outcomes :
       FanOutTaskReturn(f, i, outcome) /\ UNCHANGED svc
  \/ \E f \in {1} : FanOutEnd(f) /\ UNCHANGED svc
  \/ \E f \in {1}, outcome \in Outcomes : _run_enhanced_scorer_agent(f, outcome) /\ UNCHANGED svc
  \/ \E f \in {1}, outcome \in Outcomes : _run_enhanced_feedback_generator(f, outcome) /\ UNCHANGED svc
  \/ \E f \in {1} : CompileResult(f) /\ UNCHANGED svc
  \/ \E f \in {1} : AgentsFinally(f) /\ UNCHANGED svc

SpecAgents == InitAgents /\ [][NextAgents]_vars

\* ====================================================== claims C11, C14
\* the list a fan-out of phase k produced holds, at each task's own position,
\* the task's payload if its call ended "ok" and an {error} value otherwise
Aligned(fr, k, results) ==
  /\ Len(results) = FanOutSize(k)
  /\ \A i \in 1..FanOutSize(k) :
       LET agent == FanOutTasks(k)[i]
       IN IF fr.outcomes[agent] = "ok"
          THEN results[i] = Payload(agent)
          ELSE IsError(results[i])
FanOutAgents ==
  {AnalyzerTasks[i] : i \in 1..NumAnalyzers} \cup {EvaluatorTasks[i] : i \in 1..NumEvaluators}

\* C11: the outcome list of the analysis and of the evaluation fan-out has one
\* entry per task launched, at the task's position: an {error} value where the
\* task failed and the task's own result elsewhere; and no flow is FAILED once
\* a fan-out task has run, so a task failure never fails the phase.
C11_FanOutOutcomesAligned ==
  \A f \in Created :
    /\ frames[f].analyzer_results # <<>>
       => Aligned(frames[f], 4, frames[f].analyzer_results)
    /\ frames[f].evaluator_results # <<>>
       => Aligned(frames[f], 5, frames[f].evaluator_results)
    /\ flow_status[f] = FAILED
       => DOMAIN frames[f].outcomes \cap FanOutAgents = {}

C11_Witness ==
  \E f \in Created :
    /\ frames[f].pc = "done"
    /\ flow_status[f] = COMPLETED
    /\ frames[f].outcomes["extractor"] = "raise"
    /\ frames[f].outcomes["impact"] = "malformed"
    /\ flow_results[f].analysis_details.content_classification = Payload("classifier")
    /\ IsError(flow_results[f].analysis_details.data_extraction)
    /\ IsError(flow_results[f].analysis_details.impact_evaluation)
    /\ flow_results[f].analysis_details.reputation_evaluation = Payload("reputation")

\* =============================================== specification SpecOneFlow
\* The actions of Spec for the first flow alone, started with up to
\* ManySources source URLs.
ManySources == 3

OneFlowUrls == {SubSeq(BusinessUrls, 1, n) : n \in 1..ManySources}

NextOneFlow ==
  \/ \E u \in Users : start_agent_flow_raise(u) /\ UNCHANGED svc
  \/ \E u \in Users, urls \in OneFlowUrls :
       NewFlowId = 1 /\ start_agent_flow_create(u, urls) /\ UNCHANGED svc
  \/ \E f \in FlowIds : start_agent_flow_spawn(f) /\ UNCHANGED svc
  \/ \E u \in Users, f \in FlowIds : stop_agent_flow(u, f) /\ UNCHANGED svc
  \/ \E f \in FlowIds : ExecBegin(f) /\ UNCHANGED svc
  \/ \E f \in FlowIds : ExecLogStart(f) /\ UNCHANGED svc
  \/ \E f \in FlowIds : StopCheckReturn(f) /\ UNCHANGED svc
  \/ \E f \in FlowIds : PhaseBegin(f) /\ UNCHANGED svc
  \/ \E f \in FlowIds : AgentEnter(f) /\ UNCHANGED svc
  \/ \E f \in FlowIds : AgentReturn(f) /\ UNCHANGED svc
  \/ \E f \in FlowIds : LoopStopReturn(f) /\ UNCHANGED svc
  \/ \E f \in FlowIds : LoopScrape(f) /\ UNCHANGED svc
  \/ \E f \in FlowIds : ScrapeRaise(f) /\ UNCHANGED svc
  \/ \E f \in FlowIds, success \in BOOLEAN : ScrapeReturn(f, success) /\ UNCHANGED svc
  \/ \E f \in FlowIds : LoopEndRaise(f) /\ UNCHANGED svc
  \/ \E f \in FlowIds : LoopEnd(f) /\ UNCHANGED svc
  \/ \E f \in FlowIds : GatherStart(f) /\ UNCHANGED svc
  \/ \E f \in FlowIds : TaskFinish(f) /\ UNCHANGED svc
  \/ \E f \in FlowIds : Complete(f) /\ UNCHANGED svc
  \/ \E f \in FlowIds : ExecLogCompleted(f) /\ UNCHANGED svc
  \/ \E f \in FlowIds : ExecLogFailed(f) /\ UNCHANGED svc
  \/ \E f \in FlowIds : Finally(f) /\ UNCHANGED svc

SpecOneFlow == Init /\ [][NextOneFlow]_vars

\* ===================================================== claims C12, C13
\* the ingestion loop of f has gone through every source
IngestionOver(f) ==
  /\ frames[f].phase >= 3
  /\ frames[f].i = Len(frames[f].source_urls)
  /\ frames[f].pc \notin {"scrape", "scrape_error"}

\* C12: a flow whose sources all failed to scrape ends with status FAILED and
\* without an entry in flow_results, has begun none of the analysis,
\* evaluation, scoring and feedback phases, and no longer holds its owner's
\* slot in active_flows.
C12_AllScrapesFailEndsFailed ==
  \A f \in Created :
    (/\ Ended(f)
     /\ IngestionOver(f)
     /\ frames[f].completed_sources = 0)
    => /\ flow_status[f] = FAILED
       /\ f \notin DOMAIN flow_results
       /\ frames[f].phase = 3
       /\ LoggedPhases(f) \subseteq 1..3
       /\ ~(Owner(f) \in DOMAIN active_flows /\ active_flows[Owner(f)] = f)

\* C13: when the ingestion loop has gone through every source,
\* completed_sources + failed_sources is the number of source URLs; a flow
\* with a scraped source is never FAILED and goes on to the analysis phase;
\* and when such a flow has ended without a stop request having taken effect,
\* it is COMPLETED and the statistics of its result are those counters.
C13_IngestionCountersAndCompletion ==
  \A f \in Created :
    /\ IngestionOver(f)
       => frames[f].completed_sources + frames[f].failed_sources
            = Len(frames[f].source_urls)
    /\ frames[f].completed_sources > 0
       => /\ flow_status[f] # FAILED
          /\ frames[f].pc \notin {"failed_db"}
    /\ (Ended(f) /\ ~stop_signals[f] /\ frames[f].completed_sources > 0)
       => /\ flow_status[f] = COMPLETED
          /\ frames[f].phase = NumPhases
          /\ f \in DOMAIN flow_results
          /\ flow_results[f] =
               [total_sources |-> Len(frames[f].source_urls),
                completed_sources |-> frames[f].completed_sources,
                failed_sources |-> frames[f].failed_sources]

C13_Witness ==
  \E f \in Created :
    /\ Ended(f)
    /\ ~stop_signals[f]
    /\ Len(frames[f].source_urls) = 3
    /\ frames[f].completed_sources = 1
    /\ frames[f].failed_sources = 2
    /\ flow_status[f] = COMPLETED
    /\ flow_results[f].failed_sources = 2

\* ============================================================ claim C14
SingleAgents == {"context", "scorer", "feedback"}
\* the slot of the final result that holds what the agent returned
Slot(result, agent) ==
  CASE agent = "context" -> result.business_context
    [] agent = "scorer" -> result.blynx_score
    [] agent = "feedback" -> result.feedback
    [] agent = "classifier" -> result.analysis_details.content_classification
    [] agent = "extractor" -> result.analysis_details.data_extraction
    [] agent = "red_flags" -> result.analysis_details.red_flags
    [] agent = "news_analyzer" -> result.analysis_details.news_analysis
    [] agent = "accuracy" -> result.analysis_details.accuracy_evaluation
    [] agent = "impact" -> result.analysis_details.impact_evaluation
    [] agent = "language_clarity" -> result.analysis_details.language_evaluation
    [] agent = "brand_consistency" -> result.analysis_details.brand_evaluation
    [] OTHER -> result.analysis_details.reputation_evaluation

\* C14: whatever the context analysis, the analyzers, the evaluators, the
\* scorer and the feedback generator do (raise, or return malformed output),
\* a flow is FAILED only if no source was scraped; a flow with a scraped
\* source that has ended is COMPLETED, every one of these agents has run, and
\* the slot of each agent in the result is an {error} value if the agent
\* failed and the agent's payload otherwise.
C14_AgentFailuresContained ==
  \A f \in Created :
    /\ flow_status[f] = FAILED => frames[f].completed_sources = 0
    /\ (frames[f].pc = "done" /\ frames[f].completed_sources > 0)
       => /\ flow_status[f] = COMPLETED
          /\ f \in DOMAIN flow_results
          /\ DOMAIN frames[f].outcomes = SingleAgents \cup FanOutAgents
          /\ \A agent \in SingleAgents \cup FanOutAgents :
               IF frames[f].outcomes[agent] = "ok"
               THEN Slot(flow_results[f], agent) = Payload(agent)
               ELSE IsError(Slot(flow_results[f], agent))

C14_Witness ==
  \E f \in Created :
    /\ frames[f].pc = "done"
    /\ flow_status[f] = COMPLETED
    /\ frames[f].outcomes["context"] = "raise"
    /\ frames[f].outcomes["scorer"] = "malformed"
    /\ IsError(flow_results[f].business_context)
    /\ IsError(flow_results[f].blynx_score)
    /\ flow_results[f].feedback = Payload("feedback")

\* ====================================================== claims C15, C16
\* C15: when the background execution of a flow has ended, the status of the
\* flow is one of COMPLETED, FAILED and STOPPED, never PENDING or RUNNING.
C15_EndedFlowIsTerminal ==
  \A f \in Created : Ended(f) => Terminal(flow_status[f])

\* C16: once the status of a flow is terminal, no step changes what
\* get_flow_status, get_flow_logs and get_flow_result return for it: its
\* status, its log and its result stay as they are.
C16_TerminalFlowIsFrozen ==
  [][\A f \in DOMAIN flow_status :
       Terminal(flow_status[f])
       => /\ flow_status'[f] = flow_status[f]
          /\ flow_logs'[f] = flow_logs[f]
          /\ (f \in DOMAIN flow_results') = (f \in DOMAIN flow_results)
          /\ f \in DOMAIN flow_results => flow_results'[f] = flow_results[f]]_vars

\* ============================================= specification SpecObservers
\* The websocket endpoint of agent_service.py beside one flow.  A websocket is
\* named by a number.  Every handler is a coroutine of the same event loop as
\* the flow's task; send_text is an await, so a send is two steps: the call
\* (the registered websocket and the message are evaluated) and its end (the
\* message reaches the client, or the call raises because the client has
\* gone).  A "logs" message carries a slice of the flow's log, kept as the
\* pair from/to of the positions it covers (entries from+1 .. to).  What a
\* client has received is kept as: the highest log position received, whether
\* some entry arrived twice, the number of final status messages (2 stands for
\* two or more) and whether anything arrived after a final one.
\* In this specification one user starts the flow and every scrape fails, so
\* a flow ends FAILED or by a stop request.
MaxObservers == 2

Observers == 1..MaxObservers
OneUser == {1}

NoMsg == [type |-> "none", from |-> 0, to |-> 0, status |-> None, final |-> FALSE]
LogsMsg(from, to) ==
  [type |-> "logs", from |-> from, to |-> to, status |-> None, final |-> FALSE]
StatusMsg(status, is_final) ==
  [type |-> "status", from |-> 0, to |-> 0, status |-> status, final |-> is_final]

NewSocket ==
  [open |-> TRUE, upto |-> 0, repeated |-> FALSE, finals |-> 0, after_final |-> FALSE]

\* the client of websocket w receives msg
Received(sock, msg) ==
  [sock EXCEPT
     !.after_final = @ \/ sock.finals > 0,
     !.finals = IF msg.type = "status" /\ msg.final
                THEN (IF @ = 0 THEN 1 ELSE 2) ELSE @,
     !.repeated = @ \/ (msg.type = "logs" /\ msg.from < msg.to /\ msg.from < sock.upto),
     !.upto = IF msg.type = "logs" /\ msg.to > @ THEN msg.to ELSE @]

\* faulty variant: a failed send leaves the registration in place
disconnect_kept(ac, f) == ac

\* ConnectionManager.disconnect (lines 51-54)
disconnect(ac, f) == IF f \in DOMAIN ac THEN Del(ac, f) ELSE ac

\* get_flow_logs: the length of the list it returns
LogLen(f) == IF f \in DOMAIN flow_logs THEN Len(flow_logs[f]) ELSE 0

\* send_logs / send_status up to the await of send_text (lines 57-60, 69-77):
\* the frame suspended in the send, or no frame change if nothing is registered
Registered(ac, f) == f \in DOMAIN ac
Sending(fr, ac, pc, msg) ==
  [fr EXCEPT !.pc = pc, !.target = ac[fr.flow_id], !.msg = msg]

\* frame of websocket_logs(websocket, flow_id)
WsFrame(f) ==
  [pc |-> "start", flow_id |-> f, logs_live |-> FALSE, last_log_count |-> 0,
   target |-> 0, msg |-> NoMsg]

\* lines 307-311: the status check that ends an iteration of the loop
StatusCheck(fr, ac) ==
  IF Terminal(Get(flow_status, fr.flow_id))
  THEN IF Registered(ac, fr.flow_id)
       THEN Sending(fr, ac, "send_final",
                    StatusMsg(flow_status[fr.flow_id], TRUE))
       ELSE [fr EXCEPT !.pc = "done"]
  ELSE [fr EXCEPT !.pc = "sleep"]

\* line 305 and on: last_log_count = len(current_logs), read after the send
AfterPollLogs(fr, ac) ==
  StatusCheck([fr EXCEPT !.last_log_count = LogLen(fr.flow_id)], ac)

\* line 296: last_log_count = len(logs).  logs is the list object the first
\* get_flow_logs returned: the flow's own list, or a fresh empty list if the
\* flow had none then.
AfterInitialStatus(fr) ==
  [fr EXCEPT !.pc = "sleep",
             !.last_log_count = IF fr.logs_live THEN LogLen(fr.flow_id) ELSE 0]

\* lines 291-293
AfterInitialLogs(fr, ac) ==
  IF Get(flow_status, fr.flow_id) # None /\ Registered(ac, fr.flow_id)
  THEN Sending(fr, ac, "send_initial_status",
               StatusMsg(flow_status[fr.flow_id], FALSE))
  ELSE AfterInitialStatus(fr)

\* the handler goes on after the send it was suspended in
Resumed(fr, ac) ==
  LET g == [fr EXCEPT !.target = 0, !.msg = NoMsg]
  IN CASE fr.pc = "send_initial_logs" -> AfterInitialLogs(g, ac)
       [] fr.pc = "send_initial_status" -> AfterInitialStatus(g)
       [] fr.pc = "send_logs" -> AfterPollLogs(g, ac)
       [] OTHER -> [g EXCEPT !.pc = "done"]

SendPcs == {"send_initial_logs", "send_initial_status", "send_logs", "send_final"}

\* a client opens the websocket endpoint for flow f.  Lines 284-288 up to the
\* first send_text: accept (the handler has no effect before it returns),
\* register, read the logs, call send_logs
websocket_logs(w, f) ==
  /\ w = Cardinality(DOMAIN ws_frames) + 1
  /\ LET ac == Put(active_connections, f, w)
         fr == [WsFrame(f) EXCEPT !.logs_live = f \in DOMAIN flow_logs]
     IN /\ active_connections' = ac
        /\ ws_frames' = Put(ws_frames, w,
               Sending(fr, ac, "send_initial_logs", LogsMsg(0, LogLen(f))))
  /\ sockets' = Put(sockets, w, NewSocket)
  /\ last_call' = NoCall
  /\ UNCHANGED <<mgr, frames, stop_frames, agent_flows, rq>>

\* lines 298-311: the sleep ends and one iteration runs to its next await
poll(w) ==
  /\ w \in DOMAIN ws_frames
  /\ ws_frames[w].pc = "sleep"
  /\ LET fr == ws_frames[w]
         f == fr.flow_id
     IN ws_frames' = [ws_frames EXCEPT ![w] =
          IF LogLen(f) > fr.last_log_count
          THEN IF Registered(active_connections, f)
               THEN Sending(fr, active_connections, "send_logs",
                            LogsMsg(fr.last_log_count, LogLen(f)))
               ELSE AfterPollLogs(fr, active_connections)
          ELSE StatusCheck(fr, active_connections)]
  /\ last_call' = NoCall
  /\ UNCHANGED <<mgr, frames, active_connections, stop_frames, sockets, agent_flows, rq>>

\* send_text ends (lines 61-66, 78-80): the message arrives, or the call
\* raises and the handler of send_logs / send_status calls disconnect
send_text_end(w) ==
  /\ w \in DOMAIN ws_frames
  /\ ws_frames[w].pc \in SendPcs
  /\ LET fr == ws_frames[w]
         ok == sockets[fr.target].open
         ac == IF ok THEN active_connections
               ELSE disconnect(active_connections, fr.flow_id)
     IN /\ sockets' = IF ok
                      THEN [sockets EXCEPT ![fr.target] = Received(@, fr.msg)]
                      ELSE sockets
        /\ active_connections' = ac
        /\ ws_frames' = [ws_frames EXCEPT ![w] = Resumed(fr, ac)]
  /\ last_call' = NoCall
  /\ UNCHANGED <<mgr, frames, stop_frames, agent_flows, rq>>

\* the client of websocket w goes away
client_close(w) ==
  /\ w \in DOMAIN sockets
  /\ sockets[w].open
  /\ sockets' = [sockets EXCEPT ![w].open = FALSE]
  /\ last_call' = NoCall
  /\ UNCHANGED <<mgr, frames, active_connections, ws_frames, stop_frames, agent_flows, rq>>

\* AgentService.stop_agent_flow (lines 138-143) with a request the manager
\* accepts: the manager's stop_agent_flow, suspended in its database writes.
\* One stop request per flow is in flight at a time.
AgentService_stop_agent_flow(u, f) ==
  /\ StopAccepted(u, f)
  /\ f \in DOMAIN stop_frames => stop_frames[f].pc = "done"
  /\ stop_agent_flow(u, f)
  /\ stop_frames' = Put(stop_frames, f, [pc |-> "stop_db", flow_id |-> f,
                                         target |-> 0, msg |-> NoMsg])
  /\ UNCHANGED <<active_connections, ws_frames, sockets, agent_flows, rq>>

\* line 145: manager.send_status(flow_id, STOPPED, True) up to send_text
stop_send_status(f) ==
  /\ f \in DOMAIN stop_frames
  /\ stop_frames[f].pc = "stop_db"
  /\ stop_frames' = [stop_frames EXCEPT ![f] =
       IF Registered(active_connections, f)
       THEN Sending(@, active_connections, "send_status", StatusMsg(STOPPED, TRUE))
       ELSE [@ EXCEPT !.pc = "done"]]
  /\ last_call' = NoCall
  /\ UNCHANGED <<mgr, frames, active_connections, ws_frames, sockets, agent_flows, rq>>

stop_send_text_end(f) ==
  /\ f \in DOMAIN stop_frames
  /\ stop_frames[f].pc = "send_status"
  /\ LET fr == stop_frames[f]
         ok == sockets[fr.target].open
     IN /\ sockets' = IF ok
                      THEN [sockets EXCEPT ![fr.target] = Received(@, fr.msg)]
                      ELSE sockets
        /\ active_connections' = IF ok THEN active_connections
                                 ELSE disconnect(active_connections, f)
        /\ stop_frames' = [stop_frames EXCEPT ![f] =
               [fr EXCEPT !.pc = "done", !.target = 0, !.msg = NoMsg]]
  /\ last_call' = NoCall
  /\ UNCHANGED <<mgr, frames, ws_frames, agent_flows, rq>>

\* the flow of this specification: the steps of Spec for the first flow, of
\* one user, whose scrapes report failure
ObservedFlow ==
  \/ \E u \in OneUser, urls \in SourceUrls :
       NewFlowId = 1 /\ start_agent_flow_create(u, urls) /\ UNCHANGED svc
  \/ \E f \in FlowIds : start_agent_flow_spawn(f) /\ UNCHANGED svc
  \/ \E f \in FlowIds : ExecBegin(f) /\ UNCHANGED svc
  \/ \E f \in FlowIds : ExecLogStart(f) /\ UNCHANGED svc
  \/ \E f \in FlowIds : PhaseBegin(f) /\ UNCHANGED svc
  \/ \E f \in FlowIds : AgentEnter(f) /\ UNCHANGED svc
  \/ \E f \in FlowIds : AgentReturn(f) /\ UNCHANGED svc
  \/ \E f \in FlowIds : LoopScrape(f) /\ UNCHANGED svc
  \/ \E f \in FlowIds : ScrapeReturn(f, FALSE) /\ UNCHANGED svc
  \/ \E f \in FlowIds : LoopEndRaise(f) /\ UNCHANGED svc
  \/ \E f \in FlowIds : ExecLogFailed(f) /\ UNCHANGED svc
  \/ \E f \in FlowIds : Finally(f) /\ UNCHANGED svc

\* several observers of the flow; no stop request, no client goes away
NextObservers ==
  \/ ObservedFlow
  \/ \E w \in Observers : websocket_logs(w, 1)
  \/ \E w \in Observers : poll(w)
  \/ \E w \in Observers : send_text_end(w)

SpecObservers == Init /\ [][NextObservers]_vars

\* ============================================ specification SpecOneObserver
\* one observer of the flow, who may go away, and stop requests
NextOneObserver ==
  \/ ObservedFlow
  \/ \E f \in FlowIds : StopCheckReturn(f) /\ UNCHANGED svc
  \/ \E f \in FlowIds : LoopStopReturn(f) /\ UNCHANGED svc
  \/ \E u \in OneUser, f \in FlowIds : AgentService_stop_agent_flow(u, f)
  \/ \E f \in FlowIds : stop_send_status(f)
  \/ \E f \in FlowIds : stop_send_text_end(f)
  \/ \E w \in {1} : websocket_logs(w, 1)
  \/ \E w \in {1} : poll(w)
  \/ \E w \in {1} : send_text_end(w)
  \/ \E w \in {1} : client_close(w)

SpecOneObserver == Init /\ [][NextOneObserver]_vars

\* ====================================================== claims C17 - C20
\* C17: what the client of each websocket has received in "logs" messages
\* are entries of the flow's log, in the order of the log and none of them
\* twice, also with several websockets open for the same flow_id.
C17_NoEntryDeliveredTwice ==
  \A w \in DOMAIN sockets :
    /\ ~sockets[w].repeated
    /\ sockets[w].upto <= LogLen(ws_frames[w].flow_id)

\* C18: after the client of a websocket has received a status message with
\* final = true, nothing more is sent to it (the polling loop has ended); the
\* final message carries a terminal status.
C18_NothingAfterFinal ==
  \A w \in DOMAIN sockets :
    /\ ~sockets[w].after_final
    /\ \A f \in DOMAIN stop_frames :
         (stop_frames[f].msg.type = "status" /\ stop_frames[f].msg.final)
         => Terminal(stop_frames[f].msg.status)
    /\ (ws_frames[w].msg.type = "status" /\ ws_frames[w].msg.final)
       => Terminal(ws_frames[w].msg.status)

\* C19: the client of a websocket receives at most one status message with
\* final = true for a flow, also when the flow is ended by a stop request,
\* and no log entry twice.
C19_AtMostOneFinal ==
  \A w \in DOMAIN sockets :
    /\ sockets[w].finals <= 1
    /\ ~sockets[w].repeated


\* a step in which the send a handler of websocket_logs is suspended in raises
SendFails(w) ==
  /\ w \in DOMAIN ws_frames
  /\ ws_frames[w].pc \in SendPcs
  /\ ~sockets[ws_frames[w].target].open
  /\ ws_frames'[w] # ws_frames[w]
\* a step in which the send of the final status of a stop request raises
StopSendFails(f) ==
  /\ f \in DOMAIN stop_frames
  /\ stop_frames[f].pc = "send_status"
  /\ ~sockets[stop_frames[f].target].open
  /\ stop_frames'[f] # stop_frames[f]
\* after the step, flow f is not registered to websocket w
Dropped(f, w) ==
  ~(f \in DOMAIN active_connections' /\ active_connections'[f] = w)

\* C20: when a send to an observer fails, the observer's registration is
\* removed, the message is not sent again (the handler is in no send after the
\* step, and starts none later while the observer stays unregistered), the
\* entries of the lost message count as seen and the closed websocket receives
\* nothing; the flow's status, log, result, stop signal and position are
\* unchanged by the step.
C20_FailedSendDropsObserver ==
  [][ /\ \A w \in DOMAIN ws_frames :
           SendFails(w) =>
             LET fr == ws_frames[w]
             IN /\ Dropped(fr.flow_id, fr.target)
                /\ ws_frames'[w].pc \notin SendPcs
                /\ fr.msg.type = "logs" =>
                     ws_frames'[w].last_log_count >= fr.msg.to
                /\ sockets' = sockets
                /\ UNCHANGED <<mgr, frames>>
      /\ \A f \in DOMAIN stop_frames :
           StopSendFails(f) =>
             /\ Dropped(f, stop_frames[f].target)
             /\ stop_frames'[f].pc = "done"
             /\ sockets' = sockets
             /\ UNCHANGED <<mgr, frames>>
      /\ \A w \in DOMAIN ws_frames :
           ( /\ ~sockets[w].open
             /\ ~Registered(active_connections, ws_frames[w].flow_id)
             /\ ws_frames[w].pc \notin SendPcs )
           => /\ ws_frames'[w].pc \notin SendPcs
              /\ sockets'[w] = sockets[w]
    ]_vars

\* the observer went away after its first entries, a send to it failed, and
\* the flow ran to its failed end with entries the observer never received
C20_Witness ==
  \E w \in DOMAIN ws_frames :
    LET f == ws_frames[w].flow_id
    IN /\ ~sockets[w].open
       /\ ~Registered(active_connections, f)
       /\ ws_frames[w].pc = "done"
       /\ Ended(f)
       /\ flow_status[f] = FAILED
       /\ sockets[w].upto > 0
       /\ sockets[w].upto < LogLen(f)
       /\ ws_frames[w].last_log_count = LogLen(f)

\* ================================================================ claim C21
\* scrapes the ingestion loop of f has started, by its log
ScrapesStarted(f) == CountEntries(f, <<"INGESTOR", "Scraping source">>)
\* scrapes of f whose outcome is not yet recorded in the counters
InFlight(fr) == IF fr.pc \in {"scrape", "scrape_error"} THEN 1 ELSE 0
Recorded(fr) == fr.completed_sources + fr.failed_sources

\* C21: in one flow the scrapes started are those recorded in the counters
\* plus at most one in flight; the loop index is the number of recorded
\* outcomes and goes up one source at a time; a scrape is started only while
\* none is in flight, for the source that follows the recorded ones.
C21_OneScrapeAtATime ==
  [][ \A f \in Created :
        LET fr == frames[f]
            nx == frames'[f]
        IN /\ ScrapesStarted(f)' = Recorded(nx) + InFlight(nx)
           /\ nx.i = Recorded(nx)
           /\ nx.i \in {fr.i, fr.i + 1}
           /\ nx.i <= Len(nx.source_urls)
           /\ InFlight(nx) = 1 => nx.i < Len(nx.source_urls)
           /\ ScrapesStarted(f)' > ScrapesStarted(f)
                => /\ InFlight(fr) = 0
                   /\ ScrapesStarted(f) = Recorded(fr)
                   /\ nx.i = fr.i
                   /\ nx.pc = "scrape"
    ]_vars

\* the third scrape is in flight after one success and one failure
C21_Witness ==
  \E f \in Created :
    /\ frames[f].pc = "scrape"
    /\ frames[f].i = 2
    /\ frames[f].completed_sources = 1
    /\ frames[f].failed_sources = 1
    /\ ScrapesStarted(f) = 3

\* ================================================== specification SpecCalls
\* Two flows side by side, with the calls that do not await as states of
\* their own.  GeminiClient.generate_content calls the client's synchronous
\* generate_content inside the coroutine, and the ingestor calls
\* landing_page_agent.scrape_basic (requests.get) directly: from the call to
\* its return the thread of the event loop is inside the call and no other
\* coroutine runs.  The database writes (asyncpg) and the scrapes handed to
\* run_in_executor are awaited.
\*   pc: "llm_call"    single-agent phase inside the client's generate_content
\*       "gather_llm"  a task of the fan-out inside the client's generate_content
\*       "scrape_sync" ingestion loop inside scrape_basic
BlockingPcs == {"llm_call", "gather_llm", "scrape_sync"}

\* the event loop's thread is inside a call that does not await
LoopHeld == \E g \in Created : frames[g].pc \in BlockingPcs

\* source_urls of the flows: the landing page, then the Instagram profile
CallUrls == {SubSeq(BusinessUrls, 1, 2)}

\* the agent's first log write is done: gemini_client.generate_json_content,
\* generate_content, client.models.generate_content (lines 34-38)
generate_content_call(f) ==
  /\ f \in Created
  /\ frames[f].pc = "agent_llm"
  /\ Goto(f, "llm_call")
  /\ last_call' = NoCall
  /\ UNCHANGED mgr

\* the client returns or raises: the agent logs its last entry and returns
generate_content_return(f) ==
  /\ f \in Created
  /\ frames[f].pc = "llm_call"
  /\ flow_logs' = LogAppended(flow_logs, f, AgentTag(frames[f].phase), "returned")
  /\ Goto(f, "boundary")
  /\ last_call' = NoCall
  /\ UNCHANGED <<active_flows, flow_results, flow_status, stop_signals>>

\* a started task of the gather goes from its first log write into the client
task_generate_content_call(f) ==
  /\ f \in Created
  /\ frames[f].pc = "gather"
  /\ frames[f].finished < frames[f].started
  /\ Goto(f, "gather_llm")
  /\ last_call' = NoCall
  /\ UNCHANGED mgr

task_generate_content_return(f) ==
  /\ f \in Created
  /\ frames[f].pc = "gather_llm"
  /\ flow_logs' = LogAppended(flow_logs, f, AgentTag(frames[f].phase), "returned")
  /\ SetFrame(f, [frames[f] EXCEPT !.pc = "gather",
                                   !.finished = frames[f].finished + 1])
  /\ last_call' = NoCall
  /\ UNCHANGED <<active_flows, flow_results, flow_status, stop_signals>>

\* the url the ingestion loop of f is at
CurrentUrl(f) == frames[f].source_urls[frames[f].i + 1]

\* _run_enhanced_ingestor_agent, else branch (lines 427-429)
scrape_basic_call(f) ==
  /\ f \in Created
  /\ frames[f].pc = "scrape"
  /\ _detect_platform(CurrentUrl(f)) = "landing_page"
  /\ Goto(f, "scrape_sync")
  /\ last_call' = NoCall
  /\ UNCHANGED mgr

\* scrape_basic returns its result; lines 213-223 record it
scrape_basic_return(f, success) ==
  /\ f \in Created
  /\ frames[f].pc = "scrape_sync"
  /\ LET fr == frames[f]
     IN IF success
        THEN /\ flow_logs' = LogAppended(flow_logs, f, "INGESTOR", "Successfully scraped")
             /\ SetFrame(f, [fr EXCEPT !.pc = "loop", !.i = fr.i + 1,
                    !.all_scraped_data = fr.all_scraped_data
                                           \cup {_detect_platform(CurrentUrl(f))},
                    !.completed_sources = fr.completed_sources + 1])
        ELSE /\ flow_logs' = LogAppended(flow_logs, f, "INGESTOR", "Failed to scrape")
             /\ SetFrame(f, [fr EXCEPT !.pc = "loop", !.i = fr.i + 1,
                    !.failed_sources = fr.failed_sources + 1])
  /\ last_call' = NoCall
  /\ UNCHANGED <<active_flows, flow_results, flow_status, stop_signals>>

\* the scrape awaited in run_in_executor returns (lines 417-426, 213-223)
executor_scrape_return(f, success) ==
  /\ f \in Created
  /\ frames[f].pc = "scrape"
  /\ _detect_platform(CurrentUrl(f)) # "landing_page"
  /\ ScrapeReturn(f, success)

\* the steps of the background task of flow f
TaskStep(f) ==
  \/ ~LoopHeld /\ ExecBegin(f) /\ UNCHANGED svc
  \/ ~LoopHeld /\ ExecLogStart(f) /\ UNCHANGED svc
  \/ ~LoopHeld /\ PhaseBegin(f) /\ UNCHANGED svc
  \/ ~LoopHeld /\ AgentEnter(f) /\ UNCHANGED svc
  \/ ~LoopHeld /\ generate_content_call(f) /\ UNCHANGED svc
  \/ generate_content_return(f) /\ UNCHANGED svc
  \/ ~LoopHeld /\ LoopScrape(f) /\ UNCHANGED svc
  \/ ~LoopHeld /\ scrape_basic_call(f) /\ UNCHANGED svc
  \/ \E success \in BOOLEAN : scrape_basic_return(f, success) /\ UNCHANGED svc
  \/ \E success \in BOOLEAN :
       ~LoopHeld /\ executor_scrape_return(f, success) /\ UNCHANGED svc
  \/ ~LoopHeld /\ LoopEndRaise(f) /\ UNCHANGED svc
  \/ ~LoopHeld /\ LoopEnd(f) /\ UNCHANGED svc
  \/ ~LoopHeld /\ GatherStart(f) /\ UNCHANGED svc
  \/ ~LoopHeld /\ task_generate_content_call(f) /\ UNCHANGED svc
  \/ task_generate_content_return(f) /\ UNCHANGED svc
  \/ ~LoopHeld /\ Complete(f) /\ UNCHANGED svc
  \/ ~LoopHeld /\ ExecLogCompleted(f) /\ UNCHANGED svc
  \/ ~LoopHeld /\ ExecLogFailed(f) /\ UNCHANGED svc
  \/ ~LoopHeld /\ Finally(f) /\ UNCHANGED svc

NextCalls ==
  \/ \E u \in Users, urls \in CallUrls :
       ~LoopHeld /\ start_agent_flow_create(u, urls) /\ UNCHANGED svc
  \/ \E f \in FlowIds : ~LoopHeld /\ start_agent_flow_spawn(f) /\ UNCHANGED svc
  \/ \E f \in FlowIds : TaskStep(f)

SpecCalls == Init /\ [][NextCalls]_vars

\* ================================================================ claim C22
\* pcs at which a flow is inside an external call: a database write, a
\* scrape, an LLM invocation
ExternalCallPcs ==
  {"save", "status_db", "boundary", "agent_enter", "agent_llm", "loop",
   "scrape", "completed_db", "failed_db", "last_log"} \cup BlockingPcs
\* the background task of g exists and has not ended
Runnable(g) == g \in Created /\ frames[g].pc \notin {"save", "done"}

\* C22: whenever a flow is inside an external call (database write, scrape,
\* LLM invocation), the background task of every other flow that has not
\* ended can take a step.
C22_ExternalCallsSuspend ==
  \A f \in Created, g \in Created :
    (f # g /\ frames[f].pc \in ExternalCallPcs /\ Runnable(g))
    => ENABLED TaskStep(g)

\* ================================================= specification SpecDetect
\* _detect_platform on raw URLs.  A URL is the sequence of its characters.
MaxParts == 3

\* the substrings _detect_platform looks for (lines 368-373)
instagram_com ==
  <<"i", "n", "s", "t", "a", "g", "r", "a", "m", ".", "c", "o", "m">>
x_com ==
  <<"x", ".", "c", "o", "m">>
twitter_com ==
  <<"t", "w", "i", "t", "t", "e", "r", ".", "c", "o", "m">>
linkedin_com ==
  <<"l", "i", "n", "k", "e", "d", "i", "n", ".", "c", "o", "m">>

\* pieces the URLs of this specification are made of: the four substrings,
\* spellings that differ in case, a host that ends in "x.com" and fillers
UrlParts ==
  {instagram_com, x_com, twitter_com, linkedin_com,
   <<"I", "n", "s", "t", "a", "g", "r", "a", "m", ".", "c", "o", "m">>,
   <<"X", ".", "C", "O", "M">>,
   <<"n", "e", "t", "f", "l", "i">>,
   <<"/", "a", "c", "m", "e">>}

RECURSIVE Concat(_)
Concat(parts) ==
  IF parts = <<>> THEN <<>> ELSE Head(parts) \o Concat(Tail(parts))

UrlInputs ==
  {Concat(p) : p \in UNION {[1..n -> UrlParts] : n \in 1..MaxParts}}

\* Python's `needle in url` on str: the needle occurs at some position
Contains(url, needle) ==
  \E k \in 0..(Len(url) - Len(needle)) :
    SubSeq(url, k + 1, k + Len(needle)) = needle

\* faulty variant: the x.com test comes first
_detect_platform_raw_x_first(url) ==
  IF Contains(url, x_com) \/ Contains(url, twitter_com) THEN "x"
  ELSE IF Contains(url, instagram_com) THEN "instagram"
  ELSE IF Contains(url, linkedin_com) THEN "linkedin"
  ELSE "landing_page"

\* _detect_platform (lines 366-375)
_detect_platform_raw(url) ==
  IF Contains(url, instagram_com) THEN "instagram"
  ELSE IF Contains(url, x_com) \/ Contains(url, twitter_com) THEN "x"
  ELSE IF Contains(url, linkedin_com) THEN "linkedin"
  ELSE "landing_page"

\* a call of _detect_platform(url) that has not returned yet
DetectCall(url) == [op |-> "_detect_platform", url |-> url, ret |-> "none"]

InitDetect ==
  /\ active_flows = EmptyDict
  /\ flow_logs = EmptyDict
  /\ flow_results = EmptyDict
  /\ flow_status = EmptyDict
  /\ stop_signals = EmptyDict
  /\ frames = EmptyDict
  /\ active_connections = EmptyDict
  /\ ws_frames = EmptyDict
  /\ stop_frames = EmptyDict
  /\ sockets = EmptyDict
  /\ agent_flows = EmptyDict
  /\ queue = <<>>
  /\ scraping_jobs = EmptyDict
  /\ \E url \in UrlInputs : last_call = DetectCall(url)

DetectReturn ==
  /\ last_call.ret = "none"
  /\ last_call' = [last_call EXCEPT !.ret = _detect_platform_raw(last_call.url)]
  /\ UNCHANGED <<mgr, frames, svc>>

NextDetect == DetectReturn

SpecDetect == InitDetect /\ [][NextDetect]_vars

\* ================================================================ claim C23
\* C23: _detect_platform returns 'instagram' for every URL that contains
\* 'instagram.com'; otherwise 'x' if the URL contains 'x.com' or
\* 'twitter.com'; otherwise 'linkedin' if it contains 'linkedin.com';
\* otherwise 'landing_page'.  Containment compares characters exactly.
C23_PlatformByFirstMatch ==
  last_call.ret # "none" =>
    LET url == last_call.url
        ig == Contains(url, instagram_com)
        x == Contains(url, x_com) \/ Contains(url, twitter_com)
        li == Contains(url, linkedin_com)
    IN /\ ig => last_call.ret = "instagram"
       /\ (~ig /\ x) => last_call.ret = "x"
       /\ (~ig /\ ~x /\ li) => last_call.ret = "linkedin"
       /\ (~ig /\ ~x /\ ~li) => last_call.ret = "landing_page"

\* a URL that contains all of 'linkedin.com', 'x.com' and 'instagram.com', in
\* that order, is an Instagram URL
C23_Witness ==
  /\ last_call.ret = "instagram"
  /\ last_call.url = linkedin_com \o x_com \o instagram_com

\* ================================================================ claim C24
IsPrefix(s, t) == Len(s) <= Len(t) /\ SubSeq(t, 1, Len(s)) = s

\* entries of the first n of log that are in the set es
CountUpTo(log, n, es) == Cardinality({m \in 1..n : log[m] \in es})

\* the entries of the ingestion phase stand in the order the loop emits them:
\* the phase-start entry first, then for each source its "Scraping source"
\* entry before the entry of its outcome
IngestionInOrder(log) ==
  \A n \in 1..Len(log) :
    LET starts == CountUpTo(log, n, {<<"INGESTOR", "Scraping source">>})
        outs == CountUpTo(log, n, {<<"INGESTOR", "Successfully scraped">>,
                                   <<"INGESTOR", "Failed to scrape">>})
    IN /\ outs <= starts
       /\ starts <= outs + 1
       /\ log[n][1] = "INGESTOR" =>
            CountUpTo(log, n, {PhaseStartEntry(3)}) = 1

\* C24: every step leaves each flow's log in place and extends it at its end
\* only (the log before the step is a prefix of the log after it), and the
\* entries of the sequential ingestion phase stand in emission order.
C24_LogAppendOnly ==
  [][ \A f \in DOMAIN flow_logs :
        /\ f \in DOMAIN flow_logs'
        /\ IsPrefix(flow_logs[f], flow_logs'[f])
        /\ IngestionInOrder(flow_logs'[f])
    ]_vars

\* a completed flow of three sources whose log also holds a stop request's entry
C24_Witness ==
  \E f \in Created :
    /\ Ended(f)
    /\ flow_status[f] = COMPLETED
    /\ Len(frames[f].source_urls) = 3
    /\ StopCount(f) = 1
    /\ flow_logs[f][Len(flow_logs[f])] # StopEntry

\* ================================================= specification SpecWrites
\* One flow whose database writes may fail.  A write ends with an outcome
\* before the coroutine suspended in it goes on.
DbOutcomes == {"ok", "raise"}

\* pcs at which the flow is suspended in a write of _save_flow_to_db,
\* _update_flow_status_in_db, _update_flow_progress_in_db,
\* _save_final_result_to_db or of the insert of _log_flow_event
DbPcs ==
  {"save", "status_db", "boundary", "agent_enter", "agent_llm", "loop",
   "scrape_error", "completed_db", "failed_db", "last_log"}

\* faulty variant: a helper without its try/except
_db_helper_unguarded(outcome) ==
  IF outcome = "raise" THEN "raised" ELSE "returned"

\* the four helpers and the insert of _log_flow_event (lines 80-91, 95-106,
\* 110-121, 125-137, 155-165): try: await conn.execute(...) except Exception:
\* logger.error(...).  How the helper ends for the outcome of its write.
_db_helper(outcome) == "returned"

DbCall(f, outcome) ==
  [op |-> "db_write", user_id |-> 0, flow_id |-> f, ret |-> outcome]

\* the write flow f is suspended in ends.  An exception that left the helper
\* would go where Python takes it: out of start_agent_flow (line 46), to the
\* handler of line 356, or from the handler out of the task through finally.
DbWrite(f, outcome) ==
  /\ f \in Created
  /\ frames[f].pc \in DbPcs
  /\ last_call' = DbCall(f, outcome)
  /\ IF _db_helper(outcome) = "returned"
     THEN UNCHANGED <<mgr, frames>>
     ELSE CASE frames[f].pc = "save" ->
                 /\ Goto(f, "done")
                 /\ UNCHANGED mgr
            [] frames[f].pc \in {"failed_db", "last_log"} ->
                 /\ active_flows' = Released(active_flows, frames[f].user_id, f)
                 /\ Goto(f, "done")
                 /\ UNCHANGED <<flow_logs, flow_results, flow_status, stop_signals>>
            [] OTHER ->
                 /\ flow_status' = Put(flow_status, f, FAILED)
                 /\ Goto(f, "failed_db")
                 /\ UNCHANGED <<active_flows, flow_logs, flow_results, stop_signals>>

\* the write flow f was suspended in has ended, if it was suspended in one
WriteEnded(f) ==
  (f \in Created /\ frames[f].pc \in DbPcs)
  => (last_call.op = "db_write" /\ last_call.flow_id = f)

NextWrites ==
  \/ \E u \in OneUser, urls \in OneFlowUrls :
       NewFlowId = 1 /\ start_agent_flow_create(u, urls) /\ UNCHANGED svc
  \/ \E f \in FlowIds, outcome \in DbOutcomes : DbWrite(f, outcome) /\ UNCHANGED svc
  \/ \E f \in FlowIds : WriteEnded(f) /\ start_agent_flow_spawn(f) /\ UNCHANGED svc
  \/ \E f \in FlowIds : ExecBegin(f) /\ UNCHANGED svc
  \/ \E f \in FlowIds : WriteEnded(f) /\ ExecLogStart(f) /\ UNCHANGED svc
  \/ \E f \in FlowIds : WriteEnded(f) /\ PhaseBegin(f) /\ UNCHANGED svc
  \/ \E f \in FlowIds : WriteEnded(f) /\ AgentEnter(f) /\ UNCHANGED svc
  \/ \E f \in FlowIds : WriteEnded(f) /\ AgentReturn(f) /\ UNCHANGED svc
  \/ \E f \in FlowIds : WriteEnded(f) /\ LoopScrape(f) /\ UNCHANGED svc
  \/ \E f \in FlowIds : ScrapeRaise(f) /\ UNCHANGED svc
  \/ \E f \in FlowIds, success \in BOOLEAN :
       WriteEnded(f) /\ ScrapeReturn(f, success) /\ UNCHANGED svc
  \/ \E f \in FlowIds : WriteEnded(f) /\ LoopEndRaise(f) /\ UNCHANGED svc
  \/ \E f \in FlowIds : WriteEnded(f) /\ LoopEnd(f) /\ UNCHANGED svc
  \/ \E f \in FlowIds : GatherStart(f) /\ UNCHANGED svc
  \/ \E f \in FlowIds : TaskFinish(f) /\ UNCHANGED svc
  \/ \E f \in FlowIds : WriteEnded(f) /\ Complete(f) /\ UNCHANGED svc
  \/ \E f \in FlowIds : WriteEnded(f) /\ ExecLogCompleted(f) /\ UNCHANGED svc
  \/ \E f \in FlowIds : WriteEnded(f) /\ ExecLogFailed(f) /\ UNCHANGED svc
  \/ \E f \in FlowIds : WriteEnded(f) /\ Finally(f) /\ UNCHANGED svc

SpecWrites == Init /\ [][NextWrites]_vars

\* ================================================================ claim C25
\* C25: a step in which a database write of a flow fails changes none of the
\* manager's dictionaries (status, log, result, slot) and leaves the flow
\* where it is, so the flow goes on from the same point as after a write that
\* succeeded; a flow is FAILED only for the reason the code gives, that no
\* source could be scraped, and a flow some source of which was scraped goes
\* through every phase.
C25_WriteFailureSwallowed ==
  [][ /\ (last_call'.op = "db_write" /\ last_call'.ret = "raise")
           => UNCHANGED <<mgr, frames>>
      /\ \A f \in DOMAIN frames' :
           /\ flow_status'[f] = FAILED
                => /\ frames'[f].i = Len(frames'[f].source_urls)
                   /\ frames'[f].completed_sources = 0
                   /\ frames'[f].phase = 3
           /\ frames'[f].pc = "done"
                => (flow_status'[f] = FAILED \/
                    (flow_status'[f] = COMPLETED /\ frames'[f].phase = NumPhases))
    ]_vars

\* the insert of the flow's last log entry has failed, after the flow
\* completed with a result
C25_Witness ==
  \E f \in Created :
    /\ last_call = DbCall(f, "raise")
    /\ frames[f].pc = "last_log"
    /\ flow_status[f] = COMPLETED
    /\ f \in DOMAIN flow_results
    /\ frames[f].phase = NumPhases

\* ================================================================ claim C26
\* dict.get(k) without a default: the value, or None.  An Optional is kept as
\* a sequence of length one or zero.
Optional(d, k) == IF k \in DOMAIN d THEN <<d[k]>> ELSE <<>>

\* lines 66-68: self.flow_logs.get(flow_id, [])
get_flow_logs(f) == IF f \in DOMAIN flow_logs THEN flow_logs[f] ELSE <<>>
\* lines 70-72: self.flow_results.get(flow_id)
get_flow_result(f) == Optional(flow_results, f)
\* lines 74-76: self.flow_status.get(flow_id)
get_flow_status(f) == Optional(flow_status, f)

\* C26: for a flow id that was never created, get_flow_status, get_flow_logs
\* and get_flow_result each return a value that differs from the value they
\* return for a flow that exists, also when its log is empty and it has no
\* result yet.
C26_NotFoundIsDistinct ==
  \A f \in Created, g \in FlowIds \ Created :
    /\ get_flow_status(g) # get_flow_status(f)
    /\ get_flow_logs(g) # get_flow_logs(f)
    /\ get_flow_result(g) # get_flow_result(f)

\* ================================================================ claim C27
\* the agent of single-agent phase k of frame fr has logged its first entry
AgentEntered(fr, k) ==
  fr.phase > k \/ (fr.phase = k /\ fr.pc # "agent_enter")

\* times the log of f may hold the phase-start entry of phase k: once when
\* the phase has begun, and once more where the agent's own first entry is
\* the same entry (scorer, feedback generator)
StartEntries(fr, k) ==
  (IF fr.phase >= k THEN 1 ELSE 0)
  + (IF AgentEntry(k) = PhaseStartEntry(k) /\ k \in {6, 7} /\ AgentEntered(fr, k)
     THEN 1 ELSE 0)

\* C27: in one flow the phase counter only goes up, one phase at a time, and
\* the log holds the start of each phase once; the scrapes started never
\* exceed the source URLs and are exactly one per URL once the loop is
\* through; a step that records a failed scrape moves the loop to the next
\* source.
C27_NoRetry ==
  [][ \A f \in Created :
        LET fr == frames[f]
            nx == frames'[f]
        IN /\ nx.phase \in {fr.phase, fr.phase + 1}
           /\ \A k \in 1..NumPhases :
                CountEntries(f, PhaseStartEntry(k))' = StartEntries(nx, k)
           /\ ScrapesStarted(f)' <= Len(nx.source_urls)
           /\ IngestionOver(f)' => ScrapesStarted(f)' = Len(nx.source_urls)
           /\ nx.failed_sources > fr.failed_sources
                => /\ nx.failed_sources = fr.failed_sources + 1
                   /\ nx.i = fr.i + 1
                   /\ nx.pc = "loop"
    ]_vars

\* the feedback phase has begun in a flow whose second of three sources failed
C27_Witness ==
  \E f \in Created :
    /\ frames[f].phase = NumPhases
    /\ Len(frames[f].source_urls) = 3
    /\ frames[f].failed_sources = 1
    /\ frames[f].completed_sources = 2
    /\ ScrapesStarted(f) = 3
    /\ CountEntries(f, <<"INGESTOR", "Failed to scrape">>) = 1

\* ================================================================ claim C28
\* C28: an observer that stays connected, of a flow nobody asks to stop, is
\* sent the log without gaps (every "logs" message it receives starts no
\* later than the entry after the last one it has), and when its handler has
\* ended and the flow has ended it has received the whole log.
C28_ObserverReceivesEveryEntry ==
  [][ \A w \in DOMAIN sockets :
        LET f == ws_frames[w].flow_id
        IN (sockets'[w].open /\ f \notin DOMAIN stop_frames')
           => /\ sockets'[w].upto > sockets[w].upto
                   => \E h \in DOMAIN ws_frames :
                        /\ ws_frames[h].target = w
                        /\ ws_frames[h].msg.type = "logs"
                        /\ ws_frames[h].msg.to = sockets'[w].upto
                        /\ ws_frames[h].msg.from <= sockets[w].upto
              /\ (ws_frames'[w].pc = "done" /\ Ended(f)')
                   => sockets'[w].upto = LogLen(f)'
    ]_vars

\* ================================================================ claim C29
\* C29: when the handler of a websocket has ended, the ConnectionManager
\* holds no registration for the handler's flow_id.
C29_NoRegistrationAfterHandler ==
  \A w \in DOMAIN ws_frames :
    ws_frames[w].pc = "done"
    => ~Registered(active_connections, ws_frames[w].flow_id)

\* =============================================== specification SpecFallback
\* BaseSocialMediaAgent.scrape_with_fallback(url, flow_id, max_retries), one
\* call.  frames[1] holds the locals of the call:
\*   pc: "loop" at the head of the while loop, "returned" after a return
\*   attempts: the scrapes made so far, each [kind, outcome]
MaxRetries == 2

\* how a scrape ends: "fail"  its result has success = false, or something in
\*                            the attempt raised;
\*                    "empty" success = true, and no profile data and no posts;
\*                    "data"  success = true with profile data or posts
ScrapeOutcomes == {"fail", "empty", "data"}

\* _is_valid_result (lines 119-131)
_is_valid_result(outcome) == outcome = "data"

\* the test that ends the attempt with a return (lines 83, 94)
Accepted(kind, outcome) ==
  IF kind = "basic"
  THEN outcome # "fail" /\ _is_valid_result(outcome)
  ELSE outcome # "fail"

\* faulty variant: the loop gives up one attempt early
MayAttempt_early(fr) == fr.retry_count < fr.max_retries

\* the loop condition (line 76)
MayAttempt(fr) == fr.retry_count <= fr.max_retries

NoResult == [success |-> FALSE, method |-> "none", retry_count |-> 0]

\* The dictionaries the call returns, as records of the keys that matter.
\* scrape_basic's result as it is returned at line 85 (keys of lines 147-153)
BasicResult == [success |-> TRUE, method |-> "basic"]

\* the headless-browser result with the keys set at lines 96-97
SeleniumResult(retry_count) ==
  [success |-> TRUE, method |-> "selenium", fallback_used |-> TRUE,
   retry_count |-> retry_count]

\* faulty variant: the failure result counts the attempts, not the retries
FailureResult_attempts(retry_count) ==
  [success |-> FALSE, error |-> "last_error", retry_count |-> retry_count]

\* the result of lines 112-117
FailureResult(retry_count) ==
  [success |-> FALSE, error |-> "last_error", retry_count |-> retry_count - 1]

FallbackFrame(url, m) ==
  [pc |-> "loop", url |-> url, max_retries |-> m, retry_count |-> 0,
   attempts |-> <<>>, result |-> NoResult]

InitFallback ==
  /\ active_flows = EmptyDict
  /\ flow_logs = EmptyDict
  /\ flow_results = EmptyDict
  /\ flow_status = EmptyDict
  /\ stop_signals = EmptyDict
  /\ last_call = NoCall
  /\ active_connections = EmptyDict
  /\ ws_frames = EmptyDict
  /\ stop_frames = EmptyDict
  /\ sockets = EmptyDict
  /\ agent_flows = EmptyDict
  /\ queue = <<>>
  /\ scraping_jobs = EmptyDict
  /\ \E n \in 1..Len(BusinessUrls), m \in 0..MaxRetries :
       frames = <<FallbackFrame(BusinessUrls[n], m)>>

\* one iteration of the loop (lines 76-108): the scrape of this attempt, then
\* the return of its result or the handler of line 103
Attempt(outcome) ==
  /\ frames[1].pc = "loop"
  /\ MayAttempt(frames[1])
  /\ LET fr == frames[1]
         kind == IF fr.retry_count = 0 THEN "basic" ELSE "selenium"
         made == Append(fr.attempts, [kind |-> kind, outcome |-> outcome])
     IN frames' = [frames EXCEPT ![1] =
          IF Accepted(kind, outcome)
          THEN [fr EXCEPT !.pc = "returned", !.attempts = made,
                          !.result = IF kind = "basic" THEN BasicResult
                                     ELSE SeleniumResult(fr.retry_count)]
          ELSE [fr EXCEPT !.attempts = made,
                          !.retry_count = fr.retry_count + 1]]
  /\ UNCHANGED <<mgr, last_call, svc>>

\* lines 110-117: the loop is left, every attempt has failed
AllFailed ==
  /\ frames[1].pc = "loop"
  /\ ~MayAttempt(frames[1])
  /\ frames' = [frames EXCEPT ![1] =
       [@ EXCEPT !.pc = "returned",
                 !.result = FailureResult(frames[1].retry_count)]]
  /\ UNCHANGED <<mgr, last_call, svc>>

NextFallback ==
  \/ \E outcome \in ScrapeOutcomes : Attempt(outcome)
  \/ AllFailed

\* every scrape and every await of the call ends, so the call goes on
SpecFallback == InitFallback /\ [][NextFallback]_vars /\ WF_vars(NextFallback)

\* ================================================================ claim C30
\* the scrape of attempt a reported success
Succeeded(a) == a.outcome # "fail"

\* what the call has done so far is as the claim says, where `ok` tells which
\* attempts count as successful
FallbackAsClaimed(ok(_)) ==
  LET fr == frames[1]
      n == Len(fr.attempts)
  IN /\ n <= fr.max_retries + 1
     /\ \A k \in 1..n :
          fr.attempts[k].kind = IF k = 1 THEN "basic" ELSE "selenium"
     /\ fr.pc \in {"loop", "returned"}
     /\ fr.pc = "loop" => \A k \in 1..n : ~ok(fr.attempts[k])
     /\ fr.pc = "returned" =>
          IF fr.result.success
          THEN /\ n >= 1
               /\ ok(fr.attempts[n])
               /\ \A k \in 1..(n - 1) : ~ok(fr.attempts[k])
               /\ fr.result.method = fr.attempts[n].kind
          ELSE /\ n = fr.max_retries + 1
               /\ \A k \in 1..n : ~ok(fr.attempts[k])

AcceptedAttempt(a) == Accepted(a.kind, a.outcome)

\* C30, amended: scrape_with_fallback makes at most max_retries + 1 attempts,
\* the first a basic scrape and every later one a headless-browser scrape; it
\* returns the result of the first attempt it accepts (a basic scrape with
\* success and a valid result, a headless-browser scrape with success) and
\* makes no attempt after it, otherwise a success = false result after exactly
\* max_retries + 1 attempts; it never raises and it returns.
C30_FallbackReturnsFirstAccepted ==
  /\ [] FallbackAsClaimed(AcceptedAttempt)
  /\ <> (frames[1].pc = "returned")

\* C30 as stated: the result returned is that of the first attempt whose
\* scrape succeeded.
C30_FallbackReturnsFirstSuccess == FallbackAsClaimed(Succeeded)

\* max_retries = 2: the basic scrape succeeds without data, the first
\* headless-browser scrape fails, the second succeeds and is returned
C30_Witness ==
  /\ frames[1].pc = "returned"
  /\ frames[1].max_retries = 2
  /\ frames[1].result = [success |-> TRUE, method |-> "selenium",
                         fallback_used |-> TRUE, retry_count |-> 2]
  /\ frames[1].attempts = <<[kind |-> "basic", outcome |-> "empty"],
                            [kind |-> "selenium", outcome |-> "fail"],
                            [kind |-> "selenium", outcome |-> "data"]>>

\* ====================================================== claims C31 - C38
\* the background task of f exists (asyncio.create_task was called) and has
\* not run to the end of _execute_agent_flow
TaskLive(f) == f \in Created /\ frames[f].pc \notin {"save", "done"}

\* C31: in every reachable state a user has at most one flow whose
\* background execution task is live, under every interleaving of
\* start_agent_flow, stop_agent_flow and the execution of the flows.
C31_OneLiveTaskPerUser ==
  \A f \in Created, g \in Created :
    (f # g /\ Owner(f) = Owner(g) /\ TaskLive(f)) => ~TaskLive(g)

\* C34: the step that ends the execution of flow f removes the owner's
\* active_flows entry exactly if that entry points at f and otherwise leaves
\* active_flows as it is; an entry disappears only in the step that ends the
\* flow it points at; and once f has ended no entry points at f again, so
\* the entry of a flow is removed at most once.
C34_CleanupReleasesOwnSlotOnly ==
  /\ [][/\ \A f \in Created :
             (frames[f].pc # "done" /\ frames'[f].pc = "done")
             => active_flows' =
                  IF Owner(f) \in DOMAIN active_flows /\ active_flows[Owner(f)] = f
                  THEN [u \in DOMAIN active_flows \ {Owner(f)} |-> active_flows[u]]
                  ELSE active_flows
        /\ \A u \in DOMAIN active_flows :
             u \notin DOMAIN active_flows'
             => /\ frames[active_flows[u]].pc # "done"
                /\ frames'[active_flows[u]].pc = "done"]_vars
  /\ [](\A f \in Created :
          Ended(f) => \A u \in DOMAIN active_flows : active_flows[u] # f)

\* a flow has ended while the slot of its owner is held by a later flow
\* whose task is still live
C34_Witness ==
  \E f \in Created, g \in Created :
    /\ f # g
    /\ Owner(f) = Owner(g)
    /\ Ended(f)
    /\ TaskLive(g)
    /\ Owner(g) \in DOMAIN active_flows
    /\ active_flows[Owner(g)] = g

\* the status messages with final = true that are being sent for flow f: by
\* the polling loop of a websocket handler (line 310) or by
\* AgentService.stop_agent_flow (line 145)
FinalsInFlight(f) ==
  {ws_frames[w].msg : w \in {v \in DOMAIN ws_frames :
                               /\ ws_frames[v].flow_id = f
                               /\ ws_frames[v].msg.type = "status"
                               /\ ws_frames[v].msg.final}}
  \cup {stop_frames[g].msg : g \in {h \in DOMAIN stop_frames :
                                      /\ h = f
                                      /\ stop_frames[h].msg.type = "status"
                                      /\ stop_frames[h].msg.final}}

\* C33: a status message with final = true sent to an observer of a flow
\* carries the status the flow has once its background execution has ended:
\* whenever the execution has ended, every such message being sent carries
\* the flow's status.
C33_FinalMessageIsEndStatus ==
  \A f \in Created :
    Ended(f) => \A m \in FinalsInFlight(f) : m.status = flow_status[f]

\* ================================================= specification SpecStore
\* One flow of one user beside the status column of its row in the table
\* agent_flows.  No database call fails.  Every write is awaited: the
\* coroutine that makes it is suspended from the call to its return, and the
\* row takes the written value at the return (writes that overlap in time
\* reach the database in either order).  A stop request is the manager's
\* stop_agent_flow: lines 59-60, then suspended in the log insert and the
\* status write of lines 61-62, then its return.
obs == <<active_connections, ws_frames, sockets, rq>>

\* _save_flow_to_db returns (lines 78-91): the row exists with status PENDING
save_flow_returns(f) ==
  /\ start_agent_flow_spawn(f)
  /\ agent_flows' = Put(agent_flows, f, PENDING)

\* _update_flow_status_in_db of line 178 returns
running_write_returns(f) ==
  /\ ExecLogStart(f)
  /\ agent_flows' = Put(agent_flows, f, RUNNING)

\* _update_flow_status_in_db of line 353 returns
completed_write_returns(f) ==
  /\ ExecLogCompleted(f)
  /\ agent_flows' = Put(agent_flows, f, COMPLETED)

\* _update_flow_status_in_db of line 359 returns
failed_write_returns(f) ==
  /\ ExecLogFailed(f)
  /\ agent_flows' = Put(agent_flows, f, FAILED)

\* stop_agent_flow up to the awaits of lines 61-62
stop_call(u, f) ==
  /\ StopAccepted(u, f)
  /\ f \in DOMAIN stop_frames => stop_frames[f].pc = "returned"
  /\ stop_agent_flow(u, f)
  /\ stop_frames' = Put(stop_frames, f, [pc |-> "stop_db", flow_id |-> f,
                                         target |-> 0, msg |-> NoMsg])
  /\ UNCHANGED <<obs, agent_flows>>

\* _update_flow_status_in_db of line 62 returns, stop_agent_flow returns True
stopped_write_returns(f) ==
  /\ f \in DOMAIN stop_frames
  /\ stop_frames[f].pc = "stop_db"
  /\ stop_frames' = [stop_frames EXCEPT ![f].pc = "returned"]
  /\ agent_flows' = Put(agent_flows, f, STOPPED)
  /\ last_call' = NoCall
  /\ UNCHANGED <<mgr, frames, obs>>

NextStore ==
  \/ \E u \in OneUser, urls \in SourceUrls :
       NewFlowId = 1 /\ start_agent_flow_create(u, urls) /\ UNCHANGED svc
  \/ \E f \in FlowIds : save_flow_returns(f) /\ UNCHANGED <<obs, stop_frames>>
  \/ \E u \in OneUser, f \in FlowIds : stop_call(u, f)
  \/ \E f \in FlowIds : stopped_write_returns(f)
  \/ \E f \in FlowIds : ExecBegin(f) /\ UNCHANGED svc
  \/ \E f \in FlowIds : running_write_returns(f) /\ UNCHANGED <<obs, stop_frames>>
  \/ \E f \in FlowIds : StopCheckReturn(f) /\ UNCHANGED svc
  \/ \E f \in FlowIds : PhaseBegin(f) /\ UNCHANGED svc
  \/ \E f \in FlowIds : AgentEnter(f) /\ UNCHANGED svc
  \/ \E f \in FlowIds : AgentReturn(f) /\ UNCHANGED svc
  \/ \E f \in FlowIds : LoopStopReturn(f) /\ UNCHANGED svc
  \/ \E f \in FlowIds : LoopScrape(f) /\ UNCHANGED svc
  \/ \E f \in FlowIds : ScrapeRaise(f) /\ UNCHANGED svc
  \/ \E f \in FlowIds, success \in BOOLEAN : ScrapeReturn(f, success) /\ UNCHANGED svc
  \/ \E f \in FlowIds : LoopEndRaise(f) /\ UNCHANGED svc
  \/ \E f \in FlowIds : LoopEnd(f) /\ UNCHANGED svc
  \/ \E f \in FlowIds : GatherStart(f) /\ UNCHANGED svc
  \/ \E f \in FlowIds : TaskFinish(f) /\ UNCHANGED svc
  \/ \E f \in FlowIds : Complete(f) /\ UNCHANGED svc
  \/ \E f \in FlowIds : completed_write_returns(f) /\ UNCHANGED <<obs, stop_frames>>
  \/ \E f \in FlowIds : failed_write_returns(f) /\ UNCHANGED <<obs, stop_frames>>
  \/ \E f \in FlowIds : Finally(f) /\ UNCHANGED svc

SpecStore == Init /\ [][NextStore]_vars

\* every stop_agent_flow call made for f has returned
StopsReturned(f) == f \in DOMAIN stop_frames => stop_frames[f].pc = "returned"

\* C32: once the background execution of a flow has ended and every
\* stop_agent_flow call for it has returned, the status column of the flow's
\* row (the last status written) equals the in-memory status of the flow,
\* no write having failed.
C32_StoredStatusIsStatus ==
  \A f \in Created :
    (Ended(f) /\ StopsReturned(f))
    => (f \in DOMAIN agent_flows /\ agent_flows[f] = flow_status[f])

\* ============================================== specification SpecDispatch
\* One pass of the ingestion loop for one raw URL (lines 210-219): the
\* ingestor picks a scraper for the URL, the scrape succeeds or fails, and a
\* successful result is stored under the key _detect_platform gives the URL.
\* A scraper is named by the platform_name of its agent.

\* faulty variant: the ingestor tests for x.com first
_run_enhanced_ingestor_agent_x_first(url) ==
  IF Contains(url, x_com) \/ Contains(url, twitter_com) THEN "x"
  ELSE IF Contains(url, instagram_com) THEN "instagram"
  ELSE IF Contains(url, linkedin_com) THEN "linkedin"
  ELSE "landing_page"

\* _run_enhanced_ingestor_agent (lines 417-432): the agent whose scrape it
\* runs; scrape_instagram_enhanced, scrape_x_enhanced and
\* scrape_linkedin_enhanced pass instagram_agent, x_agent and linkedin_agent
\* (scraping_tasks.py lines 50-60)
_run_enhanced_ingestor_agent(url) ==
  IF Contains(url, instagram_com) THEN "instagram"
  ELSE IF Contains(url, x_com) \/ Contains(url, twitter_com) THEN "x"
  ELSE IF Contains(url, linkedin_com) THEN "linkedin"
  ELSE "landing_page"

\* the loop body for url, before the ingestor is called
IngestCall(url) ==
  [op |-> "ingest", pc |-> "call", url |-> url, scraper |-> "none",
   key |-> "none"]

InitDispatch ==
  /\ active_flows = EmptyDict
  /\ flow_logs = EmptyDict
  /\ flow_results = EmptyDict
  /\ flow_status = EmptyDict
  /\ stop_signals = EmptyDict
  /\ frames = EmptyDict
  /\ active_connections = EmptyDict
  /\ ws_frames = EmptyDict
  /\ stop_frames = EmptyDict
  /\ sockets = EmptyDict
  /\ agent_flows = EmptyDict
  /\ queue = <<>>
  /\ scraping_jobs = EmptyDict
  /\ \E url \in UrlInputs : last_call = IngestCall(url)

\* line 210 up to the scrape the ingestor awaits
IngestorDispatch ==
  /\ last_call.pc = "call"
  /\ last_call' = [last_call EXCEPT
       !.pc = "scraping",
       !.scraper = _run_enhanced_ingestor_agent(last_call.url)]
  /\ UNCHANGED <<mgr, frames, svc>>

\* lines 212-216: the scrape returned a result with success = true
IngestStore ==
  /\ last_call.pc = "scraping"
  /\ last_call' = [last_call EXCEPT
       !.pc = "stored",
       !.key = _detect_platform_raw(last_call.url)]
  /\ UNCHANGED <<mgr, frames, svc>>

\* lines 218-219: the scrape failed or raised, nothing is stored
IngestFailed ==
  /\ last_call.pc = "scraping"
  /\ last_call' = [last_call EXCEPT !.pc = "failed"]
  /\ UNCHANGED <<mgr, frames, svc>>

NextDispatch ==
  \/ IngestorDispatch
  \/ IngestStore
  \/ IngestFailed

SpecDispatch == InitDispatch /\ [][NextDispatch]_vars

\* C37: for every source URL, the key under which a successful scrape is
\* stored in the ingestion map is the platform of the scraper the ingestor
\* ran for that URL; a failed scrape stores nothing.
C37_StoredUnderScraperPlatform ==
  /\ last_call.pc = "stored" => last_call.key = last_call.scraper
  /\ last_call.pc # "stored" => last_call.key = "none"
  /\ last_call.pc # "call" => last_call.scraper # "none"

\* "netflix.com/acme" is scraped by the X agent and stored under 'x'
C37_Witness ==
  /\ last_call.pc = "stored"
  /\ last_call.url = <<"n", "e", "t", "f", "l", "i">> \o x_com \o <<"/", "a", "c", "m", "e">>
  /\ last_call.scraper = "x"
  /\ last_call.key = "x"

\* C38: scrape_with_fallback with max_retries = m returns a failure result
\* whose retry_count is m; a result obtained from a headless-browser attempt
\* has fallback_used = true and retry_count equal to the number of failed
\* attempts before it, between 1 and m; a result from the first basic
\* attempt has neither key.
C38_RetryCountAndFallbackUsed ==
  frames[1].pc = "returned" =>
    LET fr == frames[1]
        keys == DOMAIN fr.result
        n == Len(fr.attempts)
    IN IF ~fr.result.success
       THEN /\ "retry_count" \in keys
            /\ fr.result.retry_count = fr.max_retries
       ELSE IF fr.attempts[n].kind = "selenium"
       THEN /\ {"fallback_used", "retry_count"} \subseteq keys
            /\ fr.result.fallback_used = TRUE
            /\ fr.result.retry_count = n - 1
            /\ fr.result.retry_count \in 1..fr.max_retries
       ELSE /\ n = 1
            /\ "fallback_used" \notin keys
            /\ "retry_count" \notin keys

\* max_retries = 2: three failed attempts, the failure result has
\* retry_count = 2
C38_Witness ==
  /\ frames[1].pc = "returned"
  /\ frames[1].max_retries = 2
  /\ Len(frames[1].attempts) = 3
  /\ ~frames[1].result.success
  /\ frames[1].result.retry_count = 2

\* ================================================== specification SpecJobs
\* ScrapingService.start_scraping_job beside the RQ worker.  frames holds the
\* frame of each request, queue the jobs in the order they were enqueued,
\* each with the id RQ gave it, its function, the job_id argument it will be
\* called with (0 for None), the request that enqueued it and its RQ status.
\* The worker (queue_manager.py lines 66-113) runs one job at a time, oldest
\* first.  The insert into scraping_jobs succeeds or raises.
MaxRequests == 2

Platforms == {"instagram", "x", "linkedin", "tiktok"}
Methods == {"basic", "selenium", "api"}

\* ScrapingService.PLATFORM_AGENTS (lines 40-53): the task function of a
\* platform and method, named by the pair
PLATFORM_AGENTS ==
  [p \in {"instagram", "x", "linkedin"} |->
     [m \in {"basic", "selenium"} |-> <<"scrape", p, m>>]]

\* job.id of a new job: an id no job has
NewJobId == Len(queue) + 1

\* QueueManager.enqueue_job (queue_manager.py lines 116-123)
enqueue_job(q, func, job_id, r) ==
  Append(q, [id |-> Len(q) + 1, func |-> func, job_id |-> job_id,
             request |-> r, status |-> "queued"])

NewRequest == Cardinality(DOMAIN frames) + 1

\* lines 59-69: the platform or the method is not supported, HTTP 400
start_scraping_job_reject(platform, method) ==
  /\ NewRequest <= MaxRequests
  /\ IF platform \in DOMAIN PLATFORM_AGENTS
     THEN method \notin DOMAIN PLATFORM_AGENTS[platform]
     ELSE TRUE
  /\ frames' = Put(frames, NewRequest,
                   [pc |-> "raised", platform |-> platform, method |-> method,
                    job_id |-> 0, ret |-> 400])
  /\ UNCHANGED <<mgr, last_call, svc>>

\* lines 72-80: the first enqueue_job, with None for job_id, then suspended
\* in the insert of the row
start_scraping_job_enqueue(platform, method) ==
  /\ NewRequest <= MaxRequests
  /\ platform \in DOMAIN PLATFORM_AGENTS
  /\ method \in DOMAIN PLATFORM_AGENTS[platform]
  /\ queue' = enqueue_job(queue, PLATFORM_AGENTS[platform][method], 0, NewRequest)
  /\ frames' = Put(frames, NewRequest,
                   [pc |-> "insert", platform |-> platform, method |-> method,
                    job_id |-> NewJobId, ret |-> 0])
  /\ UNCHANGED <<mgr, last_call, active_connections, ws_frames, stop_frames,
                 sockets, agent_flows, scraping_jobs>>

\* lines 80-98: the insert returns, enqueue_job is called again with the
\* job_id, the response carries the job_id
start_scraping_job_return(r) ==
  /\ r \in DOMAIN frames
  /\ frames[r].pc = "insert"
  /\ scraping_jobs' = Put(scraping_jobs, frames[r].job_id, "queued")
  /\ queue' = enqueue_job(queue,
                          PLATFORM_AGENTS[frames[r].platform][frames[r].method],
                          frames[r].job_id, r)
  /\ frames' = [frames EXCEPT ![r].pc = "returned", ![r].ret = 200]
  /\ UNCHANGED <<mgr, last_call, active_connections, ws_frames, stop_frames,
                 sockets, agent_flows>>

\* lines 100-104: the insert raises, HTTP 500
start_scraping_job_raise(r) ==
  /\ r \in DOMAIN frames
  /\ frames[r].pc = "insert"
  /\ frames' = [frames EXCEPT ![r].pc = "raised", ![r].ret = 500]
  /\ UNCHANGED <<mgr, last_call, svc>>

\* UPDATE scraping_jobs SET status = s WHERE job_id = j: no row has a NULL
\* job_id equal to None
UpdateJob(rows, j, s) ==
  IF j \in DOMAIN rows THEN [rows EXCEPT ![j] = s] ELSE rows

WorkerIdle == \A k \in 1..Len(queue) : queue[k].status # "started"

\* the worker takes the oldest queued job and calls its function, which
\* marks its row running (scraping_tasks.py lines 62-73)
WorkerStart(k) ==
  /\ k \in 1..Len(queue)
  /\ WorkerIdle
  /\ queue[k].status = "queued"
  /\ \A j \in 1..(k - 1) : queue[j].status # "queued"
  /\ queue' = [queue EXCEPT ![k].status = "started"]
  /\ scraping_jobs' = UpdateJob(scraping_jobs, queue[k].job_id, "running")
  /\ UNCHANGED <<mgr, frames, last_call, active_connections, ws_frames,
                 stop_frames, sockets, agent_flows>>

\* the scrape ends and the function marks its row (lines 75-107)
WorkerFinish(k, success) ==
  /\ k \in 1..Len(queue)
  /\ queue[k].status = "started"
  /\ queue' = [queue EXCEPT ![k].status = "finished"]
  /\ scraping_jobs' = UpdateJob(scraping_jobs, queue[k].job_id,
                                IF success THEN "completed" ELSE "failed")
  /\ UNCHANGED <<mgr, frames, last_call, active_connections, ws_frames,
                 stop_frames, sockets, agent_flows>>

NextJobs ==
  \/ \E platform \in Platforms, method \in Methods :
       start_scraping_job_reject(platform, method)
  \/ \E platform \in Platforms, method \in Methods :
       start_scraping_job_enqueue(platform, method)
  \/ \E r \in 1..MaxRequests : start_scraping_job_return(r)
  \/ \E r \in 1..MaxRequests : start_scraping_job_raise(r)
  \/ \E k \in 1..(2 * MaxRequests) : WorkerStart(k)
  \/ \E k \in 1..(2 * MaxRequests), success \in BOOLEAN : WorkerFinish(k, success)

SpecJobs == Init /\ [][NextJobs]_vars

\* the jobs request r has enqueued
JobsOf(r) == {k \in 1..Len(queue) : queue[k].request = r}

\* C36: a start_scraping_job request that has returned has enqueued its task
\* function exactly once, its job_id has a row in scraping_jobs, and the
\* queued job with that id is the job whose execution updates that row (it
\* is called with that job_id).
C36_OneJobPerRequest ==
  \A r \in DOMAIN frames :
    frames[r].pc = "returned" =>
      /\ Cardinality(JobsOf(r)) = 1
      /\ frames[r].job_id \in DOMAIN scraping_jobs
      /\ \A k \in JobsOf(r) :
           queue[k].id = frames[r].job_id <=> queue[k].job_id = frames[r].job_id

\* ================================================ specification SpecIngest
\* The flow of SpecOneFlow, started also with source URLs of which several
\* belong to one platform: the URLs of a business profile are free text
\* (agent_service.py lines 93-105), and every URL that names none of the
\* three networks is a landing page.
SamePlatformUrls ==
  {<<"https://acme.com", "https://acme.com/shop">>,
   <<"https://instagram.com/acme", "https://acme.com", "https://acme.com/shop">>}

NextIngest ==
  \/ \E u \in Users, urls \in SamePlatformUrls :
       NewFlowId = 1 /\ start_agent_flow_create(u, urls) /\ UNCHANGED svc
  \/ NextOneFlow

SpecIngest == Init /\ [][NextIngest]_vars

\* the entries the loop has logged for the outcomes of its scrapes, in the
\* order of the source URLs
OutcomeEntries(f) ==
  SelectSeq(flow_logs[f],
            LAMBDA e : e \in {<<"INGESTOR", "Successfully scraped">>,
                              <<"INGESTOR", "Failed to scrape">>})

\* the positions of the source URLs of f that were scraped successfully
Scraped(f) ==
  {k \in 1..Len(OutcomeEntries(f)) :
     OutcomeEntries(f)[k] = <<"INGESTOR", "Successfully scraped">>}

\* the successfully scraped URLs of f belong to pairwise distinct platforms
DistinctPlatforms(f) ==
  \A j \in Scraped(f), k \in Scraped(f) :
    j # k => _detect_platform(frames[f].source_urls[j])
               # _detect_platform(frames[f].source_urls[k])

\* C35: when the ingestion loop has gone through every source, the number of
\* keys of the ingestion map is at most completed_sources, which counts every
\* successful scrape, and equals it exactly if the successfully scraped URLs
\* belong to pairwise distinct platforms; the keys are the platforms of the
\* successfully scraped URLs.
C35_KeysAtMostCompleted ==
  \A f \in Created :
    IngestionOver(f) =>
      LET fr == frames[f]
          keys == fr.all_scraped_data
      IN /\ Cardinality(keys) <= fr.completed_sources
         /\ fr.completed_sources = Cardinality(Scraped(f))
         /\ (Cardinality(keys) = fr.completed_sources) <=> DistinctPlatforms(f)
         /\ keys = {_detect_platform(fr.source_urls[k]) : k \in Scraped(f)}

\* three sources, all scraped successfully, two of them landing pages: the
\* map has two keys and completed_sources is 3
C35_Witness ==
  \E f \in Created :
    /\ IngestionOver(f)
    /\ Len(frames[f].source_urls) = 3
    /\ frames[f].completed_sources = 3
    /\ frames[f].all_scraped_data = {"instagram", "landing_page"}

====
